---- MODULE Spec2Model ----
(***************************************************************************)
(* A model of the MMM data-preparation toolkit: the HCP-level aggregation  *)
(* pipeline of scripts/run_data_transformation.py and                      *)
(* scripts/transform_hcp_to_mmm.py; the loaders and the data-quality       *)
(* validator of pip_ai_mmm_test/data/loaders.py; the column classifier and *)
(* the main of scripts/analyze_hcp_data.py; the chart functions of         *)
(* pip_ai_mmm_test/analysis/eda.py and scripts/eda_dashboard.py with the   *)
(* dashboard's cached load; and scripts/setup_python_env.py.               *)
(*                                                                         *)
(* A table is a record [cols, rows]: cols is the set of column names and   *)
(* rows a sequence of functions from column name to cell.  A null numeric  *)
(* cell (pandas NaN) is NaN, a null date (pandas NaT) is NaT.              *)
(***************************************************************************)
EXTENDS Integers, Sequences, FiniteSets, TLC

VARIABLES
    script,             \* which script runs: "run", "transform" or another
    fileExists,         \* data/raw/Mock_HCPlevel.csv exists
    raw,                \* the content of the raw CSV file, a table
    pc,                 \* the step of main() that runs next
    df,                 \* the loaded table (NoTable before the load)
    dma_agg,            \* wide DMA-level table
    national_agg,       \* wide national table
    dma_channels_df,    \* long DMA-level channel table
    national_channels_df, \* long national channel table
    files,              \* the files under data/processed
    result,             \* what main() returned
    error,              \* the exception that ended the run, if any
    vpc,                \* validate_data_quality: "idle", "call" or "returned"
    vin,                \* validate_data_quality: its arguments
    validation_results, \* validate_data_quality: its return value
    columns,            \* identify_mmm_columns: df.columns, the column list
    mmm_columns,        \* identify_mmm_columns: the mapping each call returned
    csv_file,           \* loaders: the file at file_path
    loader,             \* loaders: the function called
    loaded,             \* loaders: the outcome of the call
    rcParams,           \* matplotlib's global rendering configuration
    chart_data,         \* charts: the table the session draws from
    plotted,            \* charts: the last call, its arguments and outcome
    plots,              \* charts: the number of calls made
    disk,               \* dashboard: the state of each file of data/processed
    cache,              \* dashboard: the entry of st.cache_data for load_data
    reads,              \* dashboard: the runs of load_data's body so far
    session,            \* dashboard: what load_data gave the last interaction
    interactions,       \* dashboard: the script runs of the session so far
    desc_file,          \* analyze_hcp_data: data/raw/Column Desriptions.xlsx
    attempted,          \* setup_python_env: the pip installs run, with their outcome
    importable          \* setup_python_env: the packages that can be imported

vars == <<script, fileExists, raw, pc, df, dma_agg, national_agg,
          dma_channels_df, national_channels_df, files, result, error,
          vpc, vin, validation_results, columns, mmm_columns,
          csv_file, loader, loaded, rcParams, chart_data, plotted, plots,
          disk, cache, reads, session, interactions, desc_file, attempted, importable>>

pipelineVars == <<script, fileExists, raw, pc, df, dma_agg, national_agg,
                  dma_channels_df, national_channels_df, files, result, error>>

validatorVars == <<vpc, vin, validation_results>>

classifierVars == <<columns, mmm_columns>>

\* the state of the library functions, which the two scripts leave alone
loaderVars == <<csv_file, loader, loaded>>

chartVars == <<rcParams, chart_data, plotted, plots>>

dashboardVars == <<disk, cache, reads, session, interactions>>

\* the state of analyze_hcp_data.py and setup_python_env.py
toolVars == <<desc_file, attempted, importable>>

libraryVars == <<validatorVars, classifierVars, loaderVars, chartVars, dashboardVars, toolVars>>

-----------------------------------------------------------------------------
(* Bounds of the model *)

\* rows of a raw table
MaxRows == 2

\* interactions of a dashboard session
MaxInteractions == 3

\* columns of a classified column list
MaxCols == 3

\* calls of one library function on one input
MaxCalls == 2

-----------------------------------------------------------------------------
(* Cells and columns *)

\* a null numeric cell
NaN == -1

\* a null date
NaT == [year |-> 0, month |-> 0, day |-> 0]

NoTable == [cols |-> {}, rows |-> <<>>]

SpendCols == <<"SPEND_display_hcp", "SPEND_display_dtc", "COST_paidsearch_hcp_google",
               "Total_meetings", "TeleDetails", "total emails">>

ImpressionCols == <<"IMPRESSIONS_display_hcp", "IMPRESSIONS_display_dtc",
                    "IMPRESSIONS_paidsearch_hcp_google">>

ClickCols == <<"CLICKS_display_hcp", "CLICKS_display_dtc", "CLICKS_paidsearch_hcp_google">>

OutcomeCols == <<"TRX", "NRX", "PDE", "ZELAPAR-SELEGILINE_trx">>

Range(s) == {s[i] : i \in DOMAIN s}

\* the columns the raw HCP-level file is expected to hold
RawCols == {"month", "DMA_Code", "HCP_ID"} \cup Range(SpendCols) \cup Range(ImpressionCols)
             \cup Range(ClickCols) \cup Range(OutcomeCols)

\* run_data_transformation.py: the columns of agg_dict, in its order
agg_dict == SpendCols \o ImpressionCols \o ClickCols \o OutcomeCols \o <<"HCP_ID">>

\* transform_hcp_to_mmm.py: the columns of its aggregation dict, in its order
t_agg_dict == SubSeq(SpendCols, 1, 5) \o ImpressionCols \o ClickCols \o OutcomeCols
                \o <<"total emails", "HCP_ID">>

\* run_data_transformation.py: column_mapping (TRX, NRX and PDE are not in it)
column_mapping ==
    ("SPEND_display_hcp" :> "spend_display_hcp") @@
    ("SPEND_display_dtc" :> "spend_display_dtc") @@
    ("COST_paidsearch_hcp_google" :> "spend_paidsearch_hcp") @@
    ("Total_meetings" :> "spend_meetings") @@
    ("TeleDetails" :> "spend_teledetails") @@
    ("total emails" :> "spend_emails") @@
    ("IMPRESSIONS_display_hcp" :> "impressions_display_hcp") @@
    ("IMPRESSIONS_display_dtc" :> "impressions_display_dtc") @@
    ("IMPRESSIONS_paidsearch_hcp_google" :> "impressions_paidsearch_hcp") @@
    ("CLICKS_display_hcp" :> "clicks_display_hcp") @@
    ("CLICKS_display_dtc" :> "clicks_display_dtc") @@
    ("CLICKS_paidsearch_hcp_google" :> "clicks_paidsearch_hcp") @@
    ("ZELAPAR-SELEGILINE_trx" :> "zelapar_selegiline_trx") @@
    ("HCP_ID" :> "unique_hcps")

\* transform_hcp_to_mmm.py: the names assigned by position to the aggregated
\* columns that follow the group keys
t_columns == <<"spend_display_hcp", "spend_display_dtc", "spend_paidsearch_hcp",
               "spend_meetings", "spend_teledetails",
               "impressions_display_hcp", "impressions_display_dtc",
               "impressions_paidsearch_hcp",
               "clicks_display_hcp", "clicks_display_dtc", "clicks_paidsearch_hcp",
               "trx", "nrx", "pde", "zelapar_selegiline_trx",
               "total_emails", "unique_hcps">>

\* run_data_transformation.py: the channel list of create_channel_level_data
channels == <<"display_hcp", "display_dtc", "paidsearch_hcp", "meetings",
              "teledetails", "emails">>

\* transform_hcp_to_mmm.py: the channel list of create_mmm_ready_datasets
t_channels == <<"display_hcp", "display_dtc", "paidsearch_hcp", "meetings", "teledetails">>

-----------------------------------------------------------------------------
(* pd.to_datetime(df['month'], format='%Y%m') *)

RECURSIVE NumDigits(_)
NumDigits(n) == IF n < 10 THEN 1 ELSE 1 + NumDigits(n \div 10)

\* str(value) matched against %Y%m: four digits of year, then a month
\* 1[0-2] | 0[1-9] | [1-9], and nothing left over
ParsesAsPeriod(v) ==
    /\ v >= 0
    /\ \/ NumDigits(v) = 6 /\ v % 100 \in 1..12
       \/ NumDigits(v) = 5 /\ v % 10 \in 1..9

ParsedYear(v) == IF NumDigits(v) = 6 THEN v \div 100 ELSE v \div 10

\* the month taken from the last digit alone
ParsedMonth_last_digit(v) == v % 10

ParsedMonth(v) == IF NumDigits(v) = 6 THEN v % 100 ELSE v % 10

\* the first of a month fits datetime64[ns]: 1677-09-21 .. 2262-04-11
InNsBounds(y, m) == y * 12 + m >= 1677 * 12 + 10 /\ y * 12 + m <= 2262 * 12 + 4

\* One value of the column, as [err, date].  ns: the build stores dates as
\* datetime64[ns].  err names the exception raised, "none" when none is.
strptime(v, ns) ==
    IF ~ParsesAsPeriod(v) THEN [err |-> "ValueError", date |-> NaT]
    ELSE IF ns /\ ~InNsBounds(ParsedYear(v), ParsedMonth(v))
    THEN [err |-> "OutOfBoundsDatetime", date |-> NaT]
    ELSE [err |-> "none",
          date |-> [year |-> ParsedYear(v), month |-> ParsedMonth(v), day |-> 1]]

\* The whole column.  A column read with a null in it is a float column:
\* its non-null values print as "202301.0", which %Y%m does not match.
to_datetime(col, ns) ==
    LET hasNull == \E i \in DOMAIN col : col[i] = NaN
        one(v) == IF v = NaN THEN [err |-> "none", date |-> NaT]
                  ELSE IF hasNull THEN [err |-> "ValueError", date |-> NaT]
                  ELSE strptime(v, ns)
    IN  [i \in DOMAIN col |-> one(col[i])]

\* errors='raise': the first value that fails raises, "none" when none does
ConversionError(parsed) ==
    IF \E i \in DOMAIN parsed : parsed[i].err # "none"
    THEN parsed[CHOOSE j \in DOMAIN parsed :
                    /\ parsed[j].err # "none"
                    /\ \A k \in 1..(j-1) : parsed[k].err = "none"].err
    ELSE "none"

Column(t, c) == [i \in DOMAIN t.rows |-> t.rows[i][c]]

\* df['date'] = pd.to_datetime(df['month'], format='%Y%m')
WithDate(t, parsed) ==
    [cols |-> t.cols \cup {"date"},
     rows |-> [i \in DOMAIN t.rows |->
                 [c \in t.cols \cup {"date"} |->
                     IF c = "date" THEN parsed[i].date ELSE t.rows[i][c]]]]

-----------------------------------------------------------------------------
(* df.groupby(by).agg(...).reset_index() *)

\* a null HCP_ID
NoId == ""

IsNullCell(c, v) == IF c = "date" THEN v = NaT ELSE v = NaN

KeyOf(row, by) == [k \in Range(by) |-> row[k]]

\* groupby's default dropna=True: a row with a null key cell is in no group
GroupKeys(t, by) ==
    {KeyOf(t.rows[i], by) :
        i \in {j \in DOMAIN t.rows : \A k \in Range(by) : ~IsNullCell(k, t.rows[j][k])}}

GroupRows(t, by, key) == {i \in DOMAIN t.rows : KeyOf(t.rows[i], by) = key}

\* the nulls not skipped (skipna=False): one null cell makes the sum null
SumOver_null_propagates(t, c, I) ==
    LET RECURSIVE Total(_)
        Total(J) == IF J = {} THEN 0
                    ELSE LET i == CHOOSE j \in J : TRUE
                         IN  t.rows[i][c] + Total(J \ {i})
    IN  IF \E i \in I : t.rows[i][c] = NaN THEN NaN ELSE Total(I)

\* 'sum': nulls are skipped, and the sum of no value is 0
RECURSIVE SumOver(_, _, _)
SumOver(t, c, I) ==
    IF I = {} THEN 0
    ELSE LET i == CHOOSE j \in I : TRUE
         IN  (IF t.rows[i][c] = NaN THEN 0 ELSE t.rows[i][c]) + SumOver(t, c, I \ {i})

\* 'nunique': the distinct non-null values
nunique(t, c, I) == Cardinality({t.rows[i][c] : i \in I} \ {NoId})

Ord(c, v) == IF c = "date" THEN v.year * 12 + v.month ELSE v

\* groupby's default sort=True: the groups come out in key order
KeyLE(a, b, by) ==
    \E n \in 0..Len(by) :
        /\ \A k \in 1..n : Ord(by[k], a[by[k]]) = Ord(by[k], b[by[k]])
        /\ \/ n = Len(by)
           \/ Ord(by[n + 1], a[by[n + 1]]) < Ord(by[n + 1], b[by[n + 1]])

RECURSIVE SortKeys(_, _)
SortKeys(K, by) ==
    IF K = {} THEN <<>>
    ELSE LET m == CHOOSE x \in K : \A y \in K : KeyLE(x, y, by)
         IN  <<m>> \o SortKeys(K \ {m}, by)

\* the aggregation left out: one output row per raw row that has a key
groupby_agg_row_per_raw_row(t, by, dict) ==
    LET keep == {i \in DOMAIN t.rows : \A k \in Range(by) : ~IsNullCell(k, t.rows[i][k])}
        at == CHOOSE f \in [1..Cardinality(keep) -> keep] :
                 \A a, b \in 1..Cardinality(keep) : a < b => f[a] < f[b]
        outCols == Range(by) \cup Range(dict)
        cell(i, c) == IF c = "HCP_ID" THEN nunique(t, c, {i}) ELSE t.rows[i][c]
    IN  [cols |-> outCols,
         rows |-> [n \in 1..Cardinality(keep) |-> [c \in outCols |-> cell(at[n], c)]]]

\* one output row per group: the key cells, then each column of the dict
groupby_agg(t, by, dict) ==
    LET keys == SortKeys(GroupKeys(t, by), by)
        outCols == Range(by) \cup Range(dict)
        cell(key, c) == IF c \in Range(by) THEN key[c]
                        ELSE IF c = "HCP_ID" THEN nunique(t, c, GroupRows(t, by, key))
                        ELSE SumOver(t, c, GroupRows(t, by, key))
    IN  [cols |-> outCols,
         rows |-> [n \in DOMAIN keys |-> [c \in outCols |-> cell(keys[n], c)]]]

\* df.rename(columns=mapping)
rename(t, mapping) ==
    LET to(c) == IF c \in DOMAIN mapping THEN mapping[c] ELSE c
        newCols == {to(c) : c \in t.cols}
        from(n) == CHOOSE c \in t.cols : to(c) = n
    IN  [cols |-> newCols,
         rows |-> [i \in DOMAIN t.rows |-> [n \in newCols |-> t.rows[i][from(n)]]]]

\* df.columns = names: the columns, in their order, take the names by position
set_columns(t, order, names) ==
    LET pos(n) == CHOOSE k \in DOMAIN names : names[k] = n
    IN  [cols |-> Range(names),
         rows |-> [i \in DOMAIN t.rows |->
                     [n \in Range(names) |-> t.rows[i][order[pos(n)]]]]]

\* run_data_transformation.py
create_dma_aggregation(t) ==
    rename(groupby_agg(t, <<"DMA_Code", "date">>, agg_dict), column_mapping)

create_national_aggregation(t) ==
    rename(groupby_agg(t, <<"date">>, agg_dict), column_mapping)

\* transform_hcp_to_mmm.py: create_aggregated_mmm_data
t_dma_aggregation(t) ==
    set_columns(groupby_agg(t, <<"DMA_Code", "date">>, t_agg_dict),
                <<"DMA_Code", "date">> \o t_agg_dict,
                <<"DMA_Code", "date">> \o t_columns)

t_national_aggregation(t) ==
    set_columns(groupby_agg(t, <<"date">>, t_agg_dict),
                <<"date">> \o t_agg_dict,
                <<"date">> \o t_columns)

-----------------------------------------------------------------------------
(* The long form: one row per wide row and channel *)

\* the default of a missing column taken as null
row_get_null_default(row, name) == IF name \in DOMAIN row THEN row[name] ELSE NaN

\* row.get(name, 0), and: row[name] if name in row else 0
row_get(row, name) == IF name \in DOMAIN row THEN row[name] ELSE 0

\* the spend cell read from the channel's impressions column
channel_row_wrong_column(row, ch, keys) ==
    [c \in keys \cup {"channel", "spend", "impressions", "clicks"} |->
        IF c = "channel" THEN ch
        ELSE IF c \in {"spend", "impressions"} THEN row_get(row, "impressions_" \o ch)
        ELSE IF c = "clicks" THEN row_get(row, "clicks_" \o ch)
        ELSE row[c]]

channel_row(row, ch, keys) ==
    [c \in keys \cup {"channel", "spend", "impressions", "clicks"} |->
        IF c = "channel" THEN ch
        ELSE IF c = "spend" THEN row["spend_" \o ch]
        ELSE IF c = "impressions" THEN row_get(row, "impressions_" \o ch)
        ELSE IF c = "clicks" THEN row_get(row, "clicks_" \o ch)
        ELSE row[c]]

\* pd.DataFrame(list of dicts): a frame of no rows has no columns
create_channel_level_data(wide, chans, keys) ==
    LET n == Len(chans)
    IN  [cols |-> IF wide.rows = <<>> THEN {}
                  ELSE keys \cup {"channel", "spend", "impressions", "clicks"},
         rows |-> [k \in 1..(Len(wide.rows) * n) |->
                     channel_row(wide.rows[((k - 1) \div n) + 1],
                                 chans[((k - 1) % n) + 1], keys)]]

\* row['spend_<channel>'] raises KeyError when the wide table lacks the column
ChannelKeyError(wide, chans) ==
    wide.rows # <<>> /\ \E j \in DOMAIN chans : ("spend_" \o chans[j]) \notin wide.cols

-----------------------------------------------------------------------------
(* The raw tables the model runs on *)

\* the period, DMA and HCP cells a raw row draws from
Months == <<202301, 202302, NaN>>

Dmas == <<501, 502, NaN>>

Hcps == <<"H1", "H2", "H1">>

ColIndex(c) == CHOOSE k \in DOMAIN agg_dict : agg_dict[k] = c

\* The numeric cells of a row, by the row's value profile: profile 1 and 2
\* are the two rows of the documented scenario (spend 100 and 50, TRX 5 and
\* 3) with every other column distinct; profile 3 has every spend cell null.
Cell(profile, c) ==
    IF profile = 1 THEN (IF c = "SPEND_display_hcp" THEN 100
                         ELSE IF c = "TRX" THEN 5 ELSE ColIndex(c))
    ELSE IF profile = 2 THEN (IF c = "SPEND_display_hcp" THEN 50
                              ELSE IF c = "TRX" THEN 3 ELSE 2 * ColIndex(c))
    ELSE (IF c \in Range(SpendCols) THEN NaN ELSE 3 * ColIndex(c))

\* a raw row: seed = <<index in Months, index in Dmas, index in Hcps>>
RawRow(seed, month, cols) ==
    [c \in cols |-> IF c = "month" THEN month
                    ELSE IF c = "DMA_Code" THEN Dmas[seed[2]]
                    ELSE IF c = "HCP_ID" THEN Hcps[seed[3]]
                    ELSE Cell(seed[3], c)]

Seeds == (DOMAIN Months) \X (DOMAIN Dmas) \X (DOMAIN Hcps)

\* the tables of at most MaxRows rows, one per multiset of rows
SeedLists ==
    LET SeedRank(seed) == (seed[1] * 10 + seed[2]) * 10 + seed[3]
    IN  UNION {{q \in [1..n -> Seeds] :
                   \A i \in 1..(n - 1) : SeedRank(q[i]) <= SeedRank(q[i + 1])}
               : n \in 0..MaxRows}

RawTable(q, cols) ==
    [cols |-> cols, rows |-> [i \in DOMAIN q |-> RawRow(q[i], Months[q[i][1]], cols)]]

\* the column sets a raw file may have: every column, or one of them missing
ColumnSets ==
    {RawCols, RawCols \ {"DMA_Code"}, RawCols \ {"total emails"},
     RawCols \ {"SPEND_display_hcp"}}

\* the period values of the conversion runs: widths of 3 to 7 digits, month
\* parts 00 to 13, and the years at the ends of the ranges
PeriodValues ==
    {y * 100 + m : y \in {1677, 1899, 1900, 2023, 2262, 2263, 9999},
                   m \in {0, 1, 4, 5, 9, 10, 12, 13}}
    \cup {231, 2023, 20230, 20231, 20239, 19001, 99999, 2023011, 1900011, 10000001}

PeriodTable(months) ==
    [cols |-> RawCols,
     rows |-> [i \in DOMAIN months |-> RawRow(<<1, 1, 1>>, months[i], RawCols)]]

-----------------------------------------------------------------------------
(* The runs *)

\* a table as the loaders see it: the column names in their order, and the
\* cells of each row in that order
NoFrame == [columns |-> <<>>, rows |-> <<>>]

\* no table (None)
None == [none |-> TRUE, cols |-> {}, rows |-> <<>>]

\* the configuration after the import of pip_ai_mmm_test.analysis.eda
rc_after_import == [style |-> "seaborn-v0_8", font_family |-> <<"xkcd">>, sketch |-> FALSE]

NotPlotted ==
    [function |-> "none", channel |-> "", dma |-> "", date_col |-> "", value_cols |-> <<>>,
     xkcd_style |-> FALSE, status |-> "not called", error |-> "none", fig |-> "None"]

\* the files load_data reads, in the order it reads them
DashboardFiles == <<"dma_aggregated_data.csv", "national_aggregated_data.csv",
                    "dma_channel_data.csv", "national_channel_data.csv">>

\* load_data's four Nones
Nones == [f \in Range(DashboardFiles) |-> "None"]

\* the library functions not called and the two tool scripts not run, but
\* for the part named
Idle(except) ==
    /\ except # "validator" =>
          /\ vpc = "idle"
          /\ vin = [df |-> NoTable, datetime_cols |-> {}, required_columns |-> <<>>,
                    date_column |-> "date"]
          /\ validation_results = [is_valid |-> TRUE, issues |-> <<>>, summary |-> <<>>]
    /\ except # "classifier" =>
          /\ columns = <<>>
          /\ mmm_columns = <<>>
    /\ except # "loaders" =>
          /\ csv_file = [kind |-> "missing", header |-> <<>>, rows |-> <<>>]
          /\ loader = "none"
          /\ loaded = [status |-> "not called", error |-> "none", df |-> NoFrame]
    /\ except # "charts" =>
          /\ rcParams = rc_after_import
          /\ chart_data = None
          /\ plotted = NotPlotted
          /\ plots = 0
    /\ except # "dashboard" =>
          /\ disk = [f \in Range(DashboardFiles) |-> "missing"]
          /\ cache = [filled |-> FALSE, value |-> Nones]
          /\ reads = 0
          /\ session = [status |-> "not called", value |-> Nones]
          /\ interactions = 0
    /\ except # "analyze_hcp_data" => desc_file = "ok"
    /\ except # "setup_python_env" =>
          /\ attempted = <<>>
          /\ importable = {}

\* no run of the two transformation scripts: script s does something else
InitPipelineIdle(s) ==
    /\ script = s
    /\ fileExists = TRUE
    /\ raw = NoTable
    /\ pc = "library"
    /\ df = NoTable
    /\ dma_agg = NoTable
    /\ national_agg = NoTable
    /\ dma_channels_df = NoTable
    /\ national_channels_df = NoTable
    /\ files = {}
    /\ result = "running"
    /\ error = "none"

InitRun(t, exists) ==
    /\ script \in {"run", "transform"}
    /\ fileExists = exists
    /\ raw = t
    /\ pc = "load"
    /\ df = NoTable
    /\ dma_agg = NoTable
    /\ national_agg = NoTable
    /\ dma_channels_df = NoTable
    /\ national_channels_df = NoTable
    /\ files = {}
    /\ result = "running"
    /\ error = "none"
    /\ Idle("none")

\* a run of either script on a raw file, or with the raw file missing
Init ==
    \E q \in SeedLists, cols \in ColumnSets, exists \in BOOLEAN :
        /\ ~exists => q = <<>> /\ cols = RawCols
        /\ InitRun(RawTable(q, cols), exists)

\* a run of either script on a raw file of one or two rows, the period of
\* one row drawn from PeriodValues
InitPeriod ==
    \E v \in PeriodValues :
        \E months \in {<<v>>, <<v, 202301>>, <<202301, v>>} :
            InitRun(PeriodTable(months), TRUE)

\* the exception caught in main, which returns False
Crash_caught_in_main(e) ==
    /\ pc' = "done"
    /\ error' = "none"
    /\ result' = "False"

\* an uncaught exception ends the run
Crash(e) ==
    /\ pc' = "crashed"
    /\ error' = e
    /\ result' = "exception"

\* the try block without the print of the DMA count
load_hcp_data_no_dma_print ==
    /\ script = "run" /\ pc = "load"
    /\ IF fileExists /\ {"month", "HCP_ID"} \subseteq raw.cols
       THEN /\ df' = raw
            /\ pc' = "transform"
            /\ UNCHANGED result
       ELSE /\ df' = NoTable
            /\ pc' = "done"
            /\ result' = "False"
    /\ UNCHANGED <<script, fileExists, raw, dma_agg, national_agg, dma_channels_df,
                   national_channels_df, files, error, libraryVars>>

\* run_data_transformation.py: load_hcp_data returns None when the file is
\* missing or its try block raises, and main then returns False
load_hcp_data ==
    /\ script = "run" /\ pc = "load"
    /\ IF fileExists /\ {"month", "HCP_ID", "DMA_Code"} \subseteq raw.cols
       THEN /\ df' = raw
            /\ pc' = "transform"
            /\ UNCHANGED result
       ELSE /\ df' = NoTable
            /\ pc' = "done"
            /\ result' = "False"
    /\ UNCHANGED <<script, fileExists, raw, dma_agg, national_agg, dma_channels_df,
                   national_channels_df, files, error, libraryVars>>

\* pandas stores the dates as datetime64[ns] (ns) or in a wider unit,
\* depending on the pandas the environment installs (pandas>=1.5.0)
transform_month_to_date ==
    /\ script = "run" /\ pc = "transform"
    /\ \E ns \in BOOLEAN :
         LET parsed == to_datetime(Column(df, "month"), ns)
         IN  IF ConversionError(parsed) = "none"
             THEN /\ df' = WithDate(df, parsed)
                  /\ pc' = "dma_agg"
                  /\ UNCHANGED <<result, error>>
             ELSE /\ Crash(ConversionError(parsed))
                  /\ UNCHANGED df
    /\ UNCHANGED <<script, fileExists, raw, dma_agg, national_agg, dma_channels_df,
                   national_channels_df, files, libraryVars>>

\* groupby(...).agg(dict) raises KeyError for a column the table lacks
AggKeyError(t, by, dict) == ~((Range(by) \cup Range(dict)) \subseteq t.cols)

CreateDmaAggregation ==
    /\ script = "run" /\ pc = "dma_agg"
    /\ IF AggKeyError(df, <<"DMA_Code", "date">>, agg_dict)
       THEN Crash("KeyError") /\ UNCHANGED dma_agg
       ELSE /\ dma_agg' = create_dma_aggregation(df)
            /\ pc' = "national_agg"
            /\ UNCHANGED <<result, error>>
    /\ UNCHANGED <<script, fileExists, raw, df, national_agg, dma_channels_df,
                   national_channels_df, files, libraryVars>>

CreateNationalAggregation ==
    /\ script = "run" /\ pc = "national_agg"
    /\ IF AggKeyError(df, <<"date">>, agg_dict)
       THEN Crash("KeyError") /\ UNCHANGED national_agg
       ELSE /\ national_agg' = create_national_aggregation(df)
            /\ pc' = "channel"
            /\ UNCHANGED <<result, error>>
    /\ UNCHANGED <<script, fileExists, raw, df, dma_agg, dma_channels_df,
                   national_channels_df, files, libraryVars>>

CreateChannelLevelData ==
    /\ script = "run" /\ pc = "channel"
    /\ IF ChannelKeyError(dma_agg, channels) \/ ChannelKeyError(national_agg, channels)
       THEN Crash("KeyError") /\ UNCHANGED <<dma_channels_df, national_channels_df>>
       ELSE /\ dma_channels_df' =
                  create_channel_level_data(dma_agg, channels, {"date", "DMA_Code"})
            /\ national_channels_df' =
                  create_channel_level_data(national_agg, channels, {"date"})
            /\ pc' = "analyze"
            /\ UNCHANGED <<result, error>>
    /\ UNCHANGED <<script, fileExists, raw, df, dma_agg, national_agg, files,
                   libraryVars>>

\* groupby('channel') raises KeyError on the frame of no columns
analyze_channel_performance ==
    /\ script = "run" /\ pc = "analyze"
    /\ IF "channel" \notin dma_channels_df.cols
       THEN Crash("KeyError")
       ELSE pc' = "visualize" /\ UNCHANGED <<result, error>>
    /\ UNCHANGED <<script, fileExists, raw, df, dma_agg, national_agg, dma_channels_df,
                   national_channels_df, files, libraryVars>>

create_visualizations ==
    /\ script = "run" /\ pc = "visualize"
    /\ pc' = "save"
    /\ UNCHANGED <<script, fileExists, raw, df, dma_agg, national_agg, dma_channels_df,
                   national_channels_df, files, result, error, libraryVars>>

\* the four files written under data/processed
ProcessedFiles ==
    {[name |-> "dma_aggregated_data.csv", table |-> dma_agg],
     [name |-> "national_aggregated_data.csv", table |-> national_agg],
     [name |-> "dma_channel_data.csv", table |-> dma_channels_df],
     [name |-> "national_channel_data.csv", table |-> national_channels_df]}

save_processed_data ==
    /\ script = "run" /\ pc = "save"
    /\ files' = ProcessedFiles
    /\ pc' = "report"
    /\ UNCHANGED <<script, fileExists, raw, df, dma_agg, national_agg, dma_channels_df,
                   national_channels_df, result, error, libraryVars>>

\* the last step of main, which then returns True
create_summary_report ==
    /\ script = "run" /\ pc = "report"
    /\ pc' = "done"
    /\ result' = "True"
    /\ UNCHANGED <<script, fileExists, raw, df, dma_agg, national_agg, dma_channels_df,
                   national_channels_df, files, error, libraryVars>>

-----------------------------------------------------------------------------
(* transform_hcp_to_mmm.py: main *)

\* pd.read_csv raises FileNotFoundError, and the prints KeyError
analyze_hcp_data_structure ==
    /\ script = "transform" /\ pc = "load"
    /\ IF ~fileExists THEN Crash("FileNotFoundError") /\ UNCHANGED df
       ELSE IF ~({"month", "HCP_ID", "DMA_Code"} \subseteq raw.cols)
       THEN Crash("KeyError") /\ UNCHANGED df
       ELSE /\ df' = raw
            /\ pc' = "identify"
            /\ UNCHANGED <<result, error>>
    /\ UNCHANGED <<script, fileExists, raw, dma_agg, national_agg, dma_channels_df,
                   national_channels_df, files, libraryVars>>

\* the totals printed per spend column and business metric
identify_mmm_components ==
    /\ script = "transform" /\ pc = "identify"
    /\ IF ~((Range(SubSeq(SpendCols, 1, 5)) \cup Range(OutcomeCols)) \subseteq df.cols)
       THEN Crash("KeyError")
       ELSE pc' = "aggregate" /\ UNCHANGED <<result, error>>
    /\ UNCHANGED <<script, fileExists, raw, df, dma_agg, national_agg, dma_channels_df,
                   national_channels_df, files, libraryVars>>

create_aggregated_mmm_data ==
    /\ script = "transform" /\ pc = "aggregate"
    /\ \E ns \in BOOLEAN :
         LET parsed == to_datetime(Column(df, "month"), ns)
             dated == WithDate(df, parsed)
         IN  IF ConversionError(parsed) # "none"
             THEN /\ Crash(ConversionError(parsed))
                  /\ UNCHANGED <<df, dma_agg, national_agg>>
             ELSE IF AggKeyError(dated, <<"DMA_Code", "date">>, t_agg_dict)
             THEN /\ df' = dated
                  /\ Crash("KeyError")
                  /\ UNCHANGED <<dma_agg, national_agg>>
             ELSE /\ df' = dated
                  /\ dma_agg' = t_dma_aggregation(dated)
                  /\ national_agg' = t_national_aggregation(dated)
                  /\ pc' = "analyze"
                  /\ UNCHANGED <<result, error>>
    /\ UNCHANGED <<script, fileExists, raw, dma_channels_df, national_channels_df, files,
                   libraryVars>>

analyze_marketing_channels ==
    /\ script = "transform" /\ pc = "analyze"
    /\ IF ~(Range(SpendCols) \subseteq df.cols)
       THEN Crash("KeyError")
       ELSE pc' = "channel" /\ UNCHANGED <<result, error>>
    /\ UNCHANGED <<script, fileExists, raw, df, dma_agg, national_agg, dma_channels_df,
                   national_channels_df, files, libraryVars>>

create_mmm_ready_datasets ==
    /\ script = "transform" /\ pc = "channel"
    /\ IF ChannelKeyError(dma_agg, t_channels) \/ ChannelKeyError(national_agg, t_channels)
       THEN Crash("KeyError") /\ UNCHANGED <<dma_channels_df, national_channels_df>>
       ELSE /\ dma_channels_df' =
                  create_channel_level_data(dma_agg, t_channels, {"date", "DMA_Code"})
            /\ national_channels_df' =
                  create_channel_level_data(national_agg, t_channels, {"date"})
            /\ pc' = "save"
            /\ UNCHANGED <<result, error>>
    /\ UNCHANGED <<script, fileExists, raw, df, dma_agg, national_agg, files,
                   libraryVars>>

t_save_processed_data ==
    /\ script = "transform" /\ pc = "save"
    /\ files' = ProcessedFiles
    /\ pc' = "report"
    /\ UNCHANGED <<script, fileExists, raw, df, dma_agg, national_agg, dma_channels_df,
                   national_channels_df, result, error, libraryVars>>

\* the last step of main, which returns nothing
t_create_summary_report ==
    /\ script = "transform" /\ pc = "report"
    /\ pc' = "done"
    /\ result' = "None"
    /\ UNCHANGED <<script, fileExists, raw, df, dma_agg, national_agg, dma_channels_df,
                   national_channels_df, files, error, libraryVars>>

-----------------------------------------------------------------------------
(* loaders.py: validate_data_quality *)

\* df.isnull().sum() of one column
null_count(t, c) == Cardinality({i \in DOMAIN t.rows : t.rows[i][c] = NaN})

\* missing_pct[missing_pct > 10]: nulls / len * 100 > 10; on a table of no
\* rows the percentage is 0/0, which compares False
high_missing(t) ==
    {c \in t.cols : Len(t.rows) > 0 /\ null_count(t, c) * 100 > 10 * Len(t.rows)}

\* df.duplicated().sum(): the rows equal to an earlier row
duplicated(t) ==
    Cardinality({i \in DOMAIN t.rows : \E j \in 1..(i - 1) : t.rows[j] = t.rows[i]})

\* the difference forgotten: every required column is reported
missing_columns_no_difference(required_columns, t) == Range(required_columns)

\* set(required_columns) - set(df.columns)
missing_columns(required_columns, t) == Range(required_columns) \ t.cols

Issue(kind, cols, count) == [kind |-> kind, columns |-> cols, count |-> count]

\* the issues appended by the four checks, in the order of the checks
collect_issues(t, datetime_cols, required_columns, date_column) ==
    (IF missing_columns(required_columns, t) # {}
     THEN <<Issue("Missing columns", missing_columns(required_columns, t), 0)>>
     ELSE <<>>)
    \o (IF date_column \in t.cols /\ date_column \notin datetime_cols
        THEN <<Issue("not datetime type", {date_column}, 0)>> ELSE <<>>)
    \o (IF Cardinality(high_missing(t)) > 0
        THEN <<Issue("High missing values", high_missing(t), 0)>> ELSE <<>>)
    \o (IF duplicated(t) > 0
        THEN <<Issue("duplicate rows", {}, duplicated(t))>> ELSE <<>>)

\* the final override left out: only a missing required column is fatal
is_valid_required_only(t, datetime_cols, required_columns, date_column) ==
    missing_columns(required_columns, t) = {}

\* is_valid starts True, is set False for a missing required column, and is
\* set False at the end when the issues list is not empty
is_valid(t, datetime_cols, required_columns, date_column) ==
    LET afterRequired == missing_columns(required_columns, t) = {}
    IN  IF collect_issues(t, datetime_cols, required_columns, date_column) # <<>>
        THEN FALSE
        ELSE afterRequired

summary(t) ==
    [shape |-> <<Len(t.rows), Cardinality(t.cols)>>,
     missing_values |-> [c \in t.cols |-> <<null_count(t, c) * 100, Len(t.rows)>>],
     duplicates |-> duplicated(t)]

validate_data_quality ==
    /\ vpc = "call"
    /\ validation_results' =
         [is_valid |-> is_valid(vin.df, vin.datetime_cols, vin.required_columns,
                                vin.date_column),
          issues |-> collect_issues(vin.df, vin.datetime_cols, vin.required_columns,
                                    vin.date_column),
          summary |-> summary(vin.df)]
    /\ vpc' = "returned"
    /\ UNCHANGED <<vin, pipelineVars, toolVars, classifierVars, loaderVars, chartVars, dashboardVars>>

\* the columns of the tables validated, and the cells of a row
VCols == {"date", "channel", "spend"}

VCells == {NaN, 1, 2}

VSeeds == [VCols -> VCells]

VSeedLists ==
    LET VRank(seed) == ((seed["date"] + 1) * 4 + seed["channel"] + 1) * 4 + seed["spend"] + 1
    IN  UNION {{q \in [1..n -> VSeeds] :
                   \A i \in 1..(n - 1) : VRank(q[i]) <= VRank(q[i + 1])} : n \in 0..MaxRows}

VTable(q, cols) ==
    [cols |-> cols, rows |-> [i \in DOMAIN q |-> [c \in cols |-> q[i][c]]]]

\* the required-column lists: the one of test_data_pipeline.py, and shorter ones
RequiredLists == {<<"date", "channel", "spend">>, <<"date", "spend">>, <<>>}

\* a call of validate_data_quality on a table of some of the columns
InitValidate ==
    /\ \E q \in VSeedLists, cols \in (SUBSET VCols) \ {{}} :
         \E date_column \in {"date", "month"}, dt \in BOOLEAN, req \in RequiredLists :
            /\ dt => date_column \in cols
            /\ vin = [df |-> VTable(q, cols),
                      datetime_cols |-> IF dt THEN {date_column} ELSE {},
                      required_columns |-> req,
                      date_column |-> date_column]
    /\ vpc = "call"
    /\ validation_results = [is_valid |-> TRUE, issues |-> <<>>, summary |-> <<>>]
    /\ InitPipelineIdle("test_data_pipeline")
    /\ Idle("validator")

SpecValidate == InitValidate /\ [][validate_data_quality]_vars

-----------------------------------------------------------------------------
(* analyze_hcp_data.py: identify_mmm_columns *)

\* the role lists of mmm_columns, in the order the dict is built
Roles == <<"date_columns", "spend_columns", "channel_columns", "geographic_columns",
           "business_metrics", "hcp_identifiers">>

\* the keyword list of each role
Keywords ==
    [date_columns |-> <<"date", "time", "period", "month", "year">>,
     spend_columns |-> <<"spend", "cost", "budget", "investment", "marketing">>,
     channel_columns |-> <<"channel", "media", "platform", "campaign", "touchpoint">>,
     geographic_columns |-> <<"region", "state", "city", "territory", "geography">>,
     business_metrics |-> <<"revenue", "sales", "prescription", "volume", "conversion">>,
     hcp_identifiers |-> <<"hcp", "doctor", "physician", "id", "name">>]

\* the upper-case letters kept as they are
lower_case_sensitive(str) == str

\* str.lower(): every upper-case letter replaced by its lower-case letter
RECURSIVE lower(_)
lower(str) ==
    IF str = "" THEN ""
    ELSE LET ascii_uppercase == "ABCDEFGHIJKLMNOPQRSTUVWXYZ"
             ascii_lowercase == "abcdefghijklmnopqrstuvwxyz"
             ch == SubSeq(str, 1, 1)
             to == IF \E i \in 1..26 : SubSeq(ascii_uppercase, i, i) = ch
                   THEN LET i == CHOOSE j \in 1..26 : SubSeq(ascii_uppercase, j, j) = ch
                        IN  SubSeq(ascii_lowercase, i, i)
                   ELSE ch
         IN  to \o lower(SubSeq(str, 2, Len(str)))

\* keyword in col_lower: the keyword is a substring
contains(str, keyword) ==
    \E i \in 1..(Len(str) - Len(keyword) + 1) :
        SubSeq(str, i, i + Len(keyword) - 1) = keyword

\* any(keyword in col_lower for keyword in [...])
any_keyword(col, role) ==
    \E j \in DOMAIN Keywords[role] : contains(lower(col), Keywords[role][j])

\* the matching column put at the front of the list instead of appended
RECURSIVE role_columns_prepended(_, _)
role_columns_prepended(cols, role) ==
    IF cols = <<>> THEN <<>>
    ELSE LET before == role_columns_prepended(SubSeq(cols, 1, Len(cols) - 1), role)
             col == cols[Len(cols)]
         IN  IF any_keyword(col, role) THEN <<col>> \o before ELSE before

\* one loop over df.columns: each matching column is appended to the list
RECURSIVE role_columns(_, _)
role_columns(cols, role) ==
    IF cols = <<>> THEN <<>>
    ELSE LET before == role_columns(SubSeq(cols, 1, Len(cols) - 1), role)
             col == cols[Len(cols)]
         IN  IF any_keyword(col, role) THEN Append(before, col) ELSE before

\* the dict returned: one list per role
identify_mmm_columns(cols) == [role \in Range(Roles) |-> role_columns(cols, role)]

\* a call of identify_mmm_columns(df)
IdentifyMmmColumns ==
    /\ Len(mmm_columns) < MaxCalls
    /\ mmm_columns' = Append(mmm_columns, identify_mmm_columns(columns))
    /\ UNCHANGED <<columns, pipelineVars, toolVars, validatorVars, loaderVars, chartVars,
                   dashboardVars>>

\* the column names the classified lists draw from: columns of the raw HCP
\* file and of the marketing and business files
ColumnNames == {"HCP_ID", "COST_paidsearch_hcp_google", "TRX", "Media_Budget", "State",
                "Sales_Year"}

InitClassify ==
    /\ columns \in UNION {[1..n -> ColumnNames] : n \in 0..MaxCols}
    /\ mmm_columns = <<>>
    /\ InitPipelineIdle("analyze_hcp_data")
    /\ Idle("classifier")

SpecClassify == InitClassify /\ [][IdentifyMmmColumns]_vars

-----------------------------------------------------------------------------
(* loaders.py: load_csv_data, load_marketing_spend_data and                *)
(* load_business_metrics_data.  The cells of a CSV file are text; a null   *)
(* cell of the table read is "NaN", a parsed date "Timestamp(...)" and a   *)
(* null date "NaT".                                                        *)

Raised(e) == [status |-> "raised", error |-> e, df |-> NoFrame]

Returned(frame) == [status |-> "returned", error |-> "none", df |-> frame]

\* pd.read_csv: an empty cell is read as a null; a file of no bytes and a
\* file that is no text raise
read_csv(file) ==
    IF file.kind = "missing" THEN Raised("FileNotFoundError")
    ELSE IF file.kind = "empty" THEN Raised("EmptyDataError")
    ELSE IF file.kind = "binary" THEN Raised("UnicodeDecodeError")
    ELSE Returned([columns |-> file.header,
                   rows |-> [i \in DOMAIN file.rows |->
                               [j \in DOMAIN file.header |->
                                   IF file.rows[i][j] = "" THEN "NaN"
                                   ELSE file.rows[i][j]]]])

\* the path not checked: the read itself fails on a missing file
load_csv_data_without_exists_check(file) ==
    IF read_csv(file).status = "raised" THEN Raised("ValueError") ELSE read_csv(file)

\* load_csv_data: FileNotFoundError for a missing path, every exception of
\* the read wrapped in a ValueError
load_csv_data(file) ==
    IF file.kind = "missing" THEN Raised("FileNotFoundError")
    ELSE IF read_csv(file).status = "raised" THEN Raised("ValueError")
    ELSE read_csv(file)

\* column_mapping of load_marketing_spend_data
spend_column_mapping ==
    ("date" :> "date") @@ ("Date" :> "date") @@ ("DATE" :> "date") @@
    ("spend" :> "spend") @@ ("Spend" :> "spend") @@ ("SPEND" :> "spend") @@
    ("channel" :> "channel") @@ ("Channel" :> "channel") @@ ("CHANNEL" :> "channel") @@
    ("media" :> "channel") @@ ("Media" :> "channel")

\* column_mapping of load_business_metrics_data
metrics_column_mapping ==
    ("date" :> "date") @@ ("Date" :> "date") @@ ("DATE" :> "date") @@
    ("revenue" :> "revenue") @@ ("Revenue" :> "revenue") @@ ("REVENUE" :> "revenue") @@
    ("sales" :> "revenue") @@ ("Sales" :> "revenue") @@
    ("prescriptions" :> "prescriptions") @@ ("Prescriptions" :> "prescriptions") @@
    ("PRESCRIPTIONS" :> "prescriptions")

\* df.rename(columns=mapping) on a table with ordered columns: a name that is
\* a key of the mapping is replaced, every other name is kept
rename_columns(frame, mapping) ==
    [frame EXCEPT !.columns =
        [j \in DOMAIN frame.columns |->
            IF frame.columns[j] \in DOMAIN mapping THEN mapping[frame.columns[j]]
            ELSE frame.columns[j]]]

\* the text is a date YYYY-MM-DD of the calendar
IsDate(str) ==
    LET digits == "0123456789"
        IsDigits(x) ==
            \A i \in 1..Len(x) : \E d \in 1..10 : SubSeq(digits, d, d) = SubSeq(x, i, i)
        RECURSIVE int(_)
        int(x) ==
            IF x = "" THEN 0
            ELSE 10 * int(SubSeq(x, 1, Len(x) - 1))
                 + (CHOOSE d \in 1..10 : SubSeq(digits, d, d) = SubSeq(x, Len(x), Len(x))) - 1
        days_in_month(y, m) ==
            IF m = 2 THEN (IF (y % 4 = 0 /\ y % 100 # 0) \/ y % 400 = 0 THEN 29 ELSE 28)
            ELSE IF m \in {4, 6, 9, 11} THEN 30 ELSE 31
    IN  /\ Len(str) = 10
        /\ SubSeq(str, 5, 5) = "-" /\ SubSeq(str, 8, 8) = "-"
        /\ IsDigits(SubSeq(str, 1, 4)) /\ IsDigits(SubSeq(str, 6, 7))
        /\ IsDigits(SubSeq(str, 9, 10))
        /\ int(SubSeq(str, 6, 7)) \in 1..12
        /\ int(SubSeq(str, 9, 10)) \in
              1..days_in_month(int(SubSeq(str, 1, 4)), int(SubSeq(str, 6, 7)))

DateColumns(frame) == {j \in DOMAIN frame.columns : frame.columns[j] = "date"}

\* pd.to_datetime(df['date']) raises (errors='raise' is the default) for a
\* cell that is no date, and for two columns named date
to_datetime_raises(frame) ==
    \/ Cardinality(DateColumns(frame)) > 1
    \/ \E i \in DOMAIN frame.rows : \E j \in DateColumns(frame) :
          frame.rows[i][j] # "NaN" /\ ~IsDate(frame.rows[i][j])

\* df['date'] = pd.to_datetime(df['date'])
with_datetime(frame) ==
    [frame EXCEPT !.rows =
        [i \in DOMAIN frame.rows |->
            [j \in DOMAIN frame.columns |->
                IF j \notin DateColumns(frame) THEN frame.rows[i][j]
                ELSE IF frame.rows[i][j] = "NaN" THEN "NaT"
                ELSE "Timestamp(" \o frame.rows[i][j] \o ")"]]]

\* the body shared by the two loaders: load, rename, convert the date column
load_and_standardize(file, mapping) ==
    LET read == load_csv_data(file)
        renamed == rename_columns(read.df, mapping)
    IN  IF read.status = "raised" THEN read
        ELSE IF DateColumns(renamed) = {} THEN Returned(renamed)
        ELSE IF to_datetime_raises(renamed) THEN Raised("ValueError")
        ELSE Returned(with_datetime(renamed))

load_marketing_spend_data(file) == load_and_standardize(file, spend_column_mapping)

load_business_metrics_data(file) == load_and_standardize(file, metrics_column_mapping)

\* a direct call of load_csv_data(file_path)
LoadCsvData ==
    /\ loader = "load_csv_data" /\ loaded.status = "not called"
    /\ loaded' = load_csv_data(csv_file)
    /\ UNCHANGED <<csv_file, loader, pipelineVars, toolVars, validatorVars, classifierVars, chartVars,
                   dashboardVars>>

LoadMarketingSpendData ==
    /\ loader = "load_marketing_spend_data" /\ loaded.status = "not called"
    /\ loaded' = load_marketing_spend_data(csv_file)
    /\ UNCHANGED <<csv_file, loader, pipelineVars, toolVars, validatorVars, classifierVars, chartVars,
                   dashboardVars>>

LoadBusinessMetricsData ==
    /\ loader = "load_business_metrics_data" /\ loaded.status = "not called"
    /\ loaded' = load_business_metrics_data(csv_file)
    /\ UNCHANGED <<csv_file, loader, pipelineVars, toolVars, validatorVars, classifierVars, chartVars,
                   dashboardVars>>

\* the column names of the files loaded
HeaderNames == <<"date", "Date", "dAtE", "SPEND", "Media", "MEDIA", "Sales", "Revenue",
                 "clicks">>

\* the headers: up to MaxCols of the names, in the order of HeaderNames
Headers ==
    {h \in UNION {[1..n -> DOMAIN HeaderNames] : n \in 1..MaxCols} :
        \A a, b \in DOMAIN h : a < b => h[a] < h[b]}

\* the texts of a cell of a date column: two dates, a day that does not
\* exist, a word, and the empty cell
DateTexts == {"2023-01-15", "2024-02-29", "2023-02-30", "soon", ""}

\* a file of the header h whose rows hold the texts q in their date columns
CsvFile(h, q) ==
    [kind |-> "csv",
     header |-> [j \in DOMAIN h |-> HeaderNames[h[j]]],
     rows |-> [i \in DOMAIN q |->
                 [j \in DOMAIN h |->
                     IF HeaderNames[h[j]] \in {"date", "Date", "dAtE"} THEN q[i] ELSE "100"]]]

InitLoad ==
    /\ \/ \E h \in Headers : \E q \in UNION {[1..n -> DateTexts] : n \in 0..MaxRows} :
             csv_file = CsvFile(h, q)
       \/ \E kind \in {"missing", "empty", "binary"} : csv_file = [kind |-> kind, header |-> <<>>, rows |-> <<>>]
    /\ loader \in {"load_csv_data", "load_marketing_spend_data", "load_business_metrics_data"}
    /\ loaded = [status |-> "not called", error |-> "none", df |-> NoFrame]
    /\ InitPipelineIdle("test_data_pipeline")
    /\ Idle("loaders")

SpecLoad ==
    InitLoad /\ [][LoadCsvData \/ LoadMarketingSpendData \/ LoadBusinessMetricsData]_vars

-----------------------------------------------------------------------------
(* eda.py and eda_dashboard.py: the chart functions and the hand-drawn     *)
(* style.  An outcome is [status, error, fig, rc]: rc is the global        *)
(* configuration the call leaves behind.                                   *)

\* enable_xkcd_style(): plt.xkcd() outside a with block sets the sketch
\* parameters and the comic fonts at once
enable_xkcd_style(rc) ==
    [rc EXCEPT !.sketch = TRUE,
               !.font_family = <<"xkcd", "xkcd Script", "Humor Sans", "Comic Neue",
                                 "Comic Sans MS">>]

\* disable_xkcd_style(): plt.rcdefaults() puts every parameter back to
\* matplotlib's default
disable_xkcd_style(rc) ==
    [style |-> "default", font_family |-> <<"sans-serif">>, sketch |-> FALSE]

Outcome(status, e, fig, rc) == [status |-> status, error |-> e, fig |-> fig, rc |-> rc]

\* DataFrame.empty: no rows or no columns
empty(t) == t.cols = {} \/ t.rows = <<>>

\* data[data['dma'] == dma]
rows_of_dma(t, dma) == {i \in DOMAIN t.rows : t.rows[i]["dma"] = dma}

\* the filter statement worked on the caller's table itself
filtered_in_place(data, dma) ==
    LET of_dma(row) == row["dma"] = dma
        kept == [data EXCEPT !.rows = SelectSeq(data.rows, of_dma)]
    IN  [data |-> kept, plot_data |-> kept]

\* plot_data = data[data['dma'] == dma].copy(): the selection is a new
\* table; data is the caller's table when the statement is done
filtered_copy(data, dma) ==
    LET of_dma(row) == row["dma"] = dma
    IN  [data |-> data, plot_data |-> [data EXCEPT !.rows = SelectSeq(data.rows, of_dma)]]

\* the caller's table after create_time_series_plot,
\* create_channel_comparison_plot or calculate_metrics: the filter statement
\* is the only one that has the table in hand, and it is not reached on a
\* table that is None, empty or without a 'dma' column (KeyError)
data_after_call(data, dma) ==
    IF data.none \/ empty(data) \/ "dma" \notin data.cols THEN data
    ELSE filtered_copy(data, dma).data

\* get_available_channels: the columns with 'spend' in their lower-cased
\* name, and the six channel names
get_available_channels(t) ==
    IF t.none THEN {}
    ELSE {c \in t.cols :
             \/ contains(lower(c), "spend")
             \/ c \in {"Display_HCP", "Display_DTC", "Paid_Search_HCP", "Meetings",
                        "TeleDetails", "Emails"}}

\* get_available_dmas: 'National', and the values of the 'dma' column when
\* the table has one
get_available_dmas(t) ==
    IF t.none \/ "dma" \notin t.cols THEN {"National"}
    ELSE {"National"} \cup {t.rows[i]["dma"] : i \in DOMAIN t.rows}

\* eda_dashboard.py: create_time_series_plot
create_time_series_plot(rc, data, channel, dma, xkcd_style) ==
    IF data.none \/ empty(data) THEN Outcome("returned", "none", "None", rc)
    ELSE IF "dma" \notin data.cols THEN Outcome("raised", "KeyError", "None", rc)
    ELSE IF rows_of_dma(data, dma) = {} THEN Outcome("returned", "none", "None", rc)
    ELSE LET styled == IF xkcd_style THEN enable_xkcd_style(rc) ELSE rc
         IN  IF "month" \notin data.cols \/ channel \notin data.cols
             THEN Outcome("raised", "KeyError", "None", styled)
             ELSE Outcome("returned", "none", "Figure",
                          IF xkcd_style THEN disable_xkcd_style(styled) ELSE styled)

\* eda_dashboard.py: create_channel_comparison_plot
create_channel_comparison_plot(rc, data, dma, xkcd_style) ==
    IF data.none \/ empty(data) THEN Outcome("returned", "none", "None", rc)
    ELSE IF "dma" \notin data.cols THEN Outcome("raised", "KeyError", "None", rc)
    ELSE IF rows_of_dma(data, dma) = {} THEN Outcome("returned", "none", "None", rc)
    ELSE IF get_available_channels(data) = {} THEN Outcome("returned", "none", "None", rc)
    ELSE LET styled == IF xkcd_style THEN enable_xkcd_style(rc) ELSE rc
         IN  IF "month" \notin data.cols
             THEN Outcome("raised", "KeyError", "None", styled)
             ELSE Outcome("returned", "none", "Figure",
                          IF xkcd_style THEN disable_xkcd_style(styled) ELSE styled)

\* eda_dashboard.py: calculate_metrics; the value returned is {} or the
\* dict of the six metrics
calculate_metrics(rc, data, channel, dma) ==
    IF data.none \/ empty(data) THEN Outcome("returned", "none", "{}", rc)
    ELSE IF "dma" \notin data.cols THEN Outcome("raised", "KeyError", "None", rc)
    ELSE IF filtered_copy(data, dma).plot_data.rows = <<>> \/ channel \notin data.cols
    THEN Outcome("returned", "none", "{}", rc)
    ELSE Outcome("returned", "none", "dict", rc)

\* eda.py: plot_channel_spend_distribution(df, 'dma', spend_col),
\* plot_correlation_heatmap(df, [spend_col]) and plot_missing_data_patterns(df).
\* Each reads the table (groupby, df[cols].corr(), isnull) into new objects
\* and draws inside "with plt.xkcd()" when xkcd_style is set; a column the
\* table lacks is a KeyError, and the drawing itself returns the figure or
\* raises.  The set of the outcomes of one call.
eda_plot(rc, t, function, spend_col) ==
    IF \/ function = "plot_channel_spend_distribution" /\ ~({"dma", spend_col} \subseteq t.cols)
       \/ function = "plot_correlation_heatmap" /\ spend_col \notin t.cols
    THEN {Outcome("raised", "KeyError", "None", rc)}
    ELSE {Outcome("returned", "none", "Figure", rc), Outcome("raised", "ValueError", "None", rc)}

\* eda.py: plot_time_series.  With xkcd_style the body runs inside
\* "with plt.xkcd()", which puts the configuration back when the block is
\* left, by return or by exception; the annotation of the peak reads the
\* first row of the maximum and fails on a table without rows.
plot_time_series(rc, t, date_col, value_cols, xkcd_style) ==
    IF value_cols = <<>> THEN Outcome("raised", "ValueError", "None", rc)
    ELSE IF date_col \notin t.cols \/ ~(Range(value_cols) \subseteq t.cols)
    THEN Outcome("raised", "KeyError", "None", rc)
    ELSE IF xkcd_style /\ t.rows = <<>> THEN Outcome("raised", "IndexError", "None", rc)
    ELSE Outcome("returned", "none", "Figure", rc)

\* the record of a call and its outcome
Plotted(function, channel, dma, date_col, value_cols, xkcd_style, out) ==
    [function |-> function, channel |-> channel, dma |-> dma, date_col |-> date_col,
     value_cols |-> value_cols, xkcd_style |-> xkcd_style,
     status |-> out.status, error |-> out.error, fig |-> out.fig]

\* the channels a caller selects
SelectableChannels == {"spend_display_hcp", "spend_meetings"}

CreateTimeSeriesPlot ==
    /\ plots < MaxCalls
    /\ \E channel \in SelectableChannels, dma \in {"National", "501", "502"}, xkcd_style \in BOOLEAN :
          LET out == create_time_series_plot(rcParams, chart_data, channel, dma, xkcd_style)
          IN  /\ plotted' = Plotted("create_time_series_plot", channel, dma, "", <<>>,
                                    xkcd_style, out)
              /\ rcParams' = out.rc
              /\ chart_data' = data_after_call(chart_data, dma)
    /\ plots' = plots + 1
    /\ UNCHANGED <<pipelineVars, toolVars, validatorVars, classifierVars, loaderVars, dashboardVars>>

CreateChannelComparisonPlot ==
    /\ plots < MaxCalls
    /\ \E dma \in {"National", "501", "502"}, xkcd_style \in BOOLEAN :
          LET out == create_channel_comparison_plot(rcParams, chart_data, dma, xkcd_style)
          IN  /\ plotted' = Plotted("create_channel_comparison_plot", "", dma, "", <<>>,
                                    xkcd_style, out)
              /\ rcParams' = out.rc
              /\ chart_data' = data_after_call(chart_data, dma)
    /\ plots' = plots + 1
    /\ UNCHANGED <<pipelineVars, toolVars, validatorVars, classifierVars, loaderVars, dashboardVars>>

PlotTimeSeries ==
    /\ plots < MaxCalls
    /\ ~chart_data.none
    /\ \E value_cols \in {<<>>} \cup {<<c>> : c \in SelectableChannels},
          xkcd_style \in BOOLEAN :
          LET out == plot_time_series(rcParams, chart_data, "month", value_cols, xkcd_style)
          IN  /\ plotted' = Plotted("plot_time_series", "", "", "month", value_cols,
                                    xkcd_style, out)
              /\ rcParams' = out.rc
    /\ plots' = plots + 1
    /\ chart_data' = chart_data
    /\ UNCHANGED <<pipelineVars, toolVars, validatorVars, classifierVars, loaderVars, dashboardVars>>

CalculateMetrics ==
    /\ plots < MaxCalls
    /\ \E channel \in SelectableChannels, dma \in {"National", "501", "502"} :
          LET out == calculate_metrics(rcParams, chart_data, channel, dma)
          IN  /\ plotted' = Plotted("calculate_metrics", channel, dma, "", <<>>, FALSE, out)
              /\ rcParams' = out.rc
              /\ chart_data' = data_after_call(chart_data, dma)
    /\ plots' = plots + 1
    /\ UNCHANGED <<pipelineVars, toolVars, validatorVars, classifierVars, loaderVars, dashboardVars>>

\* demo_xkcd_plots.py: demo_global_xkcd, which draws between
\* enable_xkcd_style() and disable_xkcd_style()
DemoGlobalXkcd ==
    /\ plots < MaxCalls
    /\ rcParams' = disable_xkcd_style(enable_xkcd_style(rcParams))
    /\ plotted' = Plotted("demo_global_xkcd", "", "", "", <<>>, TRUE,
                          Outcome("returned", "none", "None", rcParams'))
    /\ plots' = plots + 1
    /\ chart_data' = chart_data
    /\ UNCHANGED <<pipelineVars, toolVars, validatorVars, classifierVars, loaderVars,
                   dashboardVars>>

\* one call of one of the three other plot functions of eda.py
PlotEda ==
    /\ plots < MaxCalls
    /\ ~chart_data.none
    /\ \E function \in {"plot_channel_spend_distribution", "plot_correlation_heatmap",
                         "plot_missing_data_patterns"},
          spend_col \in SelectableChannels, xkcd_style \in BOOLEAN :
          \E out \in eda_plot(rcParams, chart_data, function, spend_col) :
              /\ plotted' = Plotted(function, spend_col, "", "", <<>>, xkcd_style, out)
              /\ rcParams' = out.rc
    /\ plots' = plots + 1
    /\ chart_data' = chart_data
    /\ UNCHANGED <<pipelineVars, toolVars, validatorVars, classifierVars, loaderVars, dashboardVars>>

\* the column sets of the tables drawn from: the columns the dashboard
\* reads, the columns the transformation scripts write, and tables that
\* lack the channel, the month or every column
ChartColumnSets ==
    {{"dma", "month", "spend_display_hcp"}, {"DMA_Code", "date", "spend_display_hcp"},
     {"dma", "month"}, {"dma", "spend_display_hcp"}, {}}

\* None, and the tables whose row i is of geography q[i], month i and
\* spend 100 * i
ChartTables ==
    LET ChartTable(cols, q) ==
            [none |-> FALSE, cols |-> cols,
             rows |-> [i \in DOMAIN q |->
                         [c \in cols |-> IF c \in {"dma", "DMA_Code"} THEN q[i]
                                         ELSE IF c \in {"month", "date"} THEN i
                                         ELSE 100 * i]]]
    IN
    {None} \cup
    {ChartTable(cols, q) :
        cols \in ChartColumnSets,
        q \in UNION {{r \in [1..n -> {"501", "National"}] :
                         \A i \in 1..(n - 1) : r[i] = "National" => r[i + 1] = "National"}
                     : n \in 0..MaxRows}}

InitChart ==
    /\ chart_data \in {t \in ChartTables : t.cols = {} => t.rows = <<>>}
    /\ rcParams = rc_after_import
    /\ plotted = NotPlotted
    /\ plots = 0
    /\ InitPipelineIdle("eda_dashboard")
    /\ Idle("charts")

SpecChart ==
    InitChart /\ [][\/ CreateTimeSeriesPlot \/ CreateChannelComparisonPlot \/ CalculateMetrics
                    \/ PlotTimeSeries \/ PlotEda \/ DemoGlobalXkcd]_vars

-----------------------------------------------------------------------------
(* eda_dashboard.py: load_data under @st.cache_data.  A file of            *)
(* data/processed is "missing", "corrupt" (it cannot be parsed) or holds   *)
(* the tables of one run of the transformation, "v1" or "v2".              *)

\* the first file, in reading order, that is not a table
first_failure(on_disk) ==
    IF \A k \in DOMAIN DashboardFiles : on_disk[DashboardFiles[k]] \in {"v1", "v2"} THEN 0
    ELSE CHOOSE k \in DOMAIN DashboardFiles :
             /\ on_disk[DashboardFiles[k]] \notin {"v1", "v2"}
             /\ \A j \in 1..(k - 1) : on_disk[DashboardFiles[j]] \in {"v1", "v2"}

\* the body of load_data: the four reads; FileNotFoundError is caught and
\* gives four Nones, any other exception of pd.read_csv leaves the function
load_data_body(on_disk) ==
    IF first_failure(on_disk) = 0 THEN [status |-> "returned", value |-> on_disk]
    ELSE IF on_disk[DashboardFiles[first_failure(on_disk)]] = "missing"
    THEN [status |-> "returned", value |-> Nones]
    ELSE [status |-> "raised", value |-> Nones]

\* a call that raised stored too, as four Nones
cache_store_raised_too(entry, out) == [filled |-> TRUE, value |-> out.value]

\* st.cache_data: the value a call returned is stored; a call that raised
\* stores nothing
cache_store(entry, out) ==
    IF out.status = "returned" THEN [filled |-> TRUE, value |-> out.value] ELSE entry

\* one interaction: the script runs again and main calls load_data()
LoadData ==
    /\ interactions < MaxInteractions
    /\ interactions' = interactions + 1
    /\ IF cache.filled
       THEN /\ session' = [status |-> "returned", value |-> cache.value]
            /\ UNCHANGED <<cache, reads>>
       ELSE /\ session' = load_data_body(disk)
            /\ cache' = cache_store(cache, load_data_body(disk))
            /\ reads' = reads + 1
    /\ UNCHANGED <<disk, pipelineVars, toolVars, validatorVars, classifierVars, loaderVars, chartVars>>

\* a run of the transformation, in another process, writes the four files
WriteProcessedFiles ==
    /\ \E v \in {"v1", "v2"} :
          /\ disk # [f \in Range(DashboardFiles) |-> v]
          /\ disk' = [f \in Range(DashboardFiles) |-> v]
    /\ UNCHANGED <<cache, reads, session, interactions, pipelineVars, toolVars, validatorVars,
                   classifierVars, loaderVars, chartVars>>

InitDashboard ==
    /\ disk \in [Range(DashboardFiles) -> {"missing", "corrupt", "v1"}]
    /\ cache = [filled |-> FALSE, value |-> Nones]
    /\ reads = 0
    /\ session = [status |-> "not called", value |-> Nones]
    /\ interactions = 0
    /\ InitPipelineIdle("eda_dashboard")
    /\ Idle("dashboard")

SpecDashboard == InitDashboard /\ [][LoadData \/ WriteProcessedFiles]_vars

-----------------------------------------------------------------------------
(* analyze_hcp_data.py: main.  The run reads the raw CSV file and the      *)
(* workbook of column descriptions, which is "ok", "missing" or "corrupt", *)
(* and writes two files under reports/.                                    *)

\* load_hcp_data: any exception of pd.read_csv is caught and gives None,
\* and main returns
AnalyzeLoadHcpData ==
    /\ script = "analyze_hcp_data" /\ pc = "load"
    /\ IF fileExists
       THEN /\ df' = raw
            /\ pc' = "describe"
            /\ UNCHANGED result
       ELSE /\ df' = NoTable
            /\ pc' = "done"
            /\ result' = "None"
    /\ UNCHANGED <<script, fileExists, raw, dma_agg, national_agg, dma_channels_df,
                   national_channels_df, files, error, libraryVars>>

\* load_column_descriptions: any exception of pd.read_excel is caught and
\* gives None; main does not look at the value
AnalyzeLoadColumnDescriptions ==
    /\ script = "analyze_hcp_data" /\ pc = "describe"
    /\ desc_file \in {"ok", "missing", "corrupt"}
    /\ pc' = "analyze"
    /\ UNCHANGED <<script, fileExists, raw, df, dma_agg, national_agg, dma_channels_df,
                   national_channels_df, files, result, error, libraryVars>>

\* analyze_data_structure, identify_mmm_columns and create_mmm_data_summary:
\* they print, and their values go to the files written next
AnalyzeAndClassify ==
    /\ script = "analyze_hcp_data" /\ pc = "analyze"
    /\ pc' = "save"
    /\ UNCHANGED <<script, fileExists, raw, df, dma_agg, national_agg, dma_channels_df,
                   national_channels_df, files, result, error, libraryVars>>

\* the two to_csv calls that end main
AnalyzeSaveResults ==
    /\ script = "analyze_hcp_data" /\ pc = "save"
    /\ files' = {"hcp_column_mapping.csv", "hcp_data_summary.csv"}
    /\ pc' = "done"
    /\ result' = "None"
    /\ UNCHANGED <<script, fileExists, raw, df, dma_agg, national_agg, dma_channels_df,
                   national_channels_df, error, libraryVars>>

\* a run on a raw file, or with the raw file missing, and a workbook
InitAnalyze ==
    /\ script = "analyze_hcp_data"
    /\ fileExists \in BOOLEAN
    /\ raw \in {RawTable(q, RawCols) : q \in SeedLists}
    /\ ~fileExists => raw = RawTable(<<>>, RawCols)
    /\ pc = "load"
    /\ df = NoTable
    /\ dma_agg = NoTable
    /\ national_agg = NoTable
    /\ dma_channels_df = NoTable
    /\ national_channels_df = NoTable
    /\ files = {}
    /\ result = "running"
    /\ error = "none"
    /\ desc_file \in {"ok", "missing", "corrupt"}
    /\ Idle("analyze_hcp_data")

SpecAnalyze ==
    InitAnalyze /\ [][\/ AnalyzeLoadHcpData \/ AnalyzeLoadColumnDescriptions
                      \/ AnalyzeAndClassify \/ AnalyzeSaveResults]_vars

-----------------------------------------------------------------------------
(* setup_python_env.py: main.  A package is named by the module it is      *)
(* imported as.  attempted holds the pip installs run so far with their    *)
(* outcome; a package can be imported when it was importable before the    *)
(* run or its install succeeded.                                           *)

\* install_packages: the three lists, in the order they are installed;
\* verify_installation: packages_to_test
packages ==
    [core |-> <<"pandas", "numpy", "matplotlib", "seaborn", "scipy", "statsmodels",
                "openpyxl", "xlrd">>,
     bayesian |-> <<"pymc", "arviz", "xarray">>,
     dev |-> <<"jupyter", "ipykernel", "notebook", "pytest">>,
     to_test |-> <<"pandas", "numpy", "matplotlib", "seaborn", "scipy", "statsmodels",
                   "pymc">>]

\* check_python_version: main returns False on a Python older than 3.8
CheckPythonVersion ==
    /\ script = "setup_python_env" /\ pc = "check"
    /\ \E compatible \in BOOLEAN :
          IF compatible THEN pc' = "install" /\ UNCHANGED result
          ELSE pc' = "done" /\ result' = "False"
    /\ UNCHANGED <<script, fileExists, raw, df, dma_agg, national_agg, dma_channels_df,
                   national_channels_df, files, error, libraryVars>>

\* install_packages, one run_command("pip install ...") at a time: a core
\* package that fails makes install_packages, and main, return False at
\* once; a Bayesian or development package that fails is a warning
InstallPackage ==
    /\ script = "setup_python_env" /\ pc = "install"
    /\ LET all == packages.core \o packages.bayesian \o packages.dev
           k == Len(attempted) + 1
       IN  \E ok \in BOOLEAN :
             /\ attempted' = Append(attempted, [package |-> all[k], ok |-> ok])
             /\ importable' = IF ok THEN importable \cup {all[k]} ELSE importable
             /\ IF ~ok /\ k <= Len(packages.core)
                THEN pc' = "done" /\ result' = "False"
                ELSE /\ pc' = IF k = Len(all) THEN "verify" ELSE "install"
                     /\ UNCHANGED result
    /\ UNCHANGED <<script, fileExists, raw, df, dma_agg, national_agg, dma_channels_df,
                   national_channels_df, files, error, validatorVars, classifierVars,
                   loaderVars, chartVars, dashboardVars, desc_file>>

\* verify_installation: the first package of packages_to_test that cannot
\* be imported makes it, and main, return False
VerifyInstallation ==
    /\ script = "setup_python_env" /\ pc = "verify"
    /\ IF Range(packages.to_test) \subseteq importable
       THEN pc' = "kernel" /\ UNCHANGED result
       ELSE pc' = "done" /\ result' = "False"
    /\ UNCHANGED <<script, fileExists, raw, df, dma_agg, national_agg, dma_channels_df,
                   national_channels_df, files, error, libraryVars>>

\* create_jupyter_kernel: its value is dropped, and main returns True
CreateJupyterKernel ==
    /\ script = "setup_python_env" /\ pc = "kernel"
    /\ pc' = "done"
    /\ result' = "True"
    /\ UNCHANGED <<script, fileExists, raw, df, dma_agg, national_agg, dma_channels_df,
                   national_channels_df, files, error, libraryVars>>

\* a run in an environment where nothing, or pymc, can be imported yet
InitSetup ==
    /\ script = "setup_python_env"
    /\ fileExists = TRUE
    /\ raw = NoTable
    /\ pc = "check"
    /\ df = NoTable
    /\ dma_agg = NoTable
    /\ national_agg = NoTable
    /\ dma_channels_df = NoTable
    /\ national_channels_df = NoTable
    /\ files = {}
    /\ result = "running"
    /\ error = "none"
    /\ Idle("setup_python_env")
    /\ attempted = <<>>
    /\ importable \in {{}, {"pymc"}}

SpecSetup ==
    InitSetup /\ [][\/ CheckPythonVersion \/ InstallPackage \/ VerifyInstallation
                    \/ CreateJupyterKernel]_vars

Next ==
    \/ load_hcp_data
    \/ transform_month_to_date
    \/ CreateDmaAggregation
    \/ CreateNationalAggregation
    \/ CreateChannelLevelData
    \/ analyze_channel_performance
    \/ create_visualizations
    \/ save_processed_data
    \/ create_summary_report
    \/ analyze_hcp_data_structure
    \/ identify_mmm_components
    \/ create_aggregated_mmm_data
    \/ analyze_marketing_channels
    \/ create_mmm_ready_datasets
    \/ t_save_processed_data
    \/ t_create_summary_report

Spec == Init /\ [][Next]_vars

SpecPeriod == InitPeriod /\ [][Next]_vars

-----------------------------------------------------------------------------
(* Properties of validate_data_quality, checked under SpecValidate *)

RequiredPresent == Range(vin.required_columns) \subseteq vin.df.cols

DateNotDatetime ==
    vin.date_column \in vin.df.cols /\ vin.date_column \notin vin.datetime_cols

NullsOf(c) == {i \in DOMAIN vin.df.rows : vin.df.rows[i][c] = NaN}

SomeColumnOverTenPercentNull ==
    \E c \in vin.df.cols :
        vin.df.rows # <<>> /\ 10 * Cardinality(NullsOf(c)) > Len(vin.df.rows)

SomeDuplicateRow ==
    \E i, j \in DOMAIN vin.df.rows : i < j /\ vin.df.rows[i] = vin.df.rows[j]

AdvisoryFinding == DateNotDatetime \/ SomeColumnOverTenPercentNull \/ SomeDuplicateRow

HasIssue(kind) ==
    \E i \in DOMAIN validation_results.issues : validation_results.issues[i].kind = kind

C2_MissingColumnsNamed ==
    (vpc = "returned" /\ ~RequiredPresent) =>
        /\ ~validation_results.is_valid
        /\ \E i \in DOMAIN validation_results.issues :
              /\ validation_results.issues[i].kind = "Missing columns"
              /\ \A c \in Range(vin.required_columns) :
                    c \notin vin.df.cols => c \in validation_results.issues[i].columns
              /\ \A c \in validation_results.issues[i].columns : c \notin vin.df.cols

\* a table with one required column missing and another present
C2_Witness ==
    /\ vpc = "returned"
    /\ vin.required_columns = <<"date", "channel", "spend">>
    /\ vin.df.cols = {"date", "spend"}
    /\ HasIssue("Missing columns")

-----------------------------------------------------------------------------
(* Properties of the aggregation, checked under Spec *)

DmaDone == dma_agg.cols # {}

NationalDone == national_agg.cols # {}

ChannelDone ==
    \/ script = "run" /\ pc \in {"analyze", "visualize", "save", "report", "done"}
    \/ script = "transform" /\ pc \in {"save", "report", "done"}

Finished == pc \in {"done", "crashed"}

\* the sum of the non-null cells of column c over the rows I of table t
RECURSIVE NonNullTotal(_, _, _)
NonNullTotal(t, c, I) ==
    IF I = {} THEN 0
    ELSE LET i == CHOOSE j \in I : \A k \in I : j >= k
         IN  NonNullTotal(t, c, I \ {i}) + (IF t.rows[i][c] = NaN THEN 0 ELSE t.rows[i][c])

\* the summed columns of a wide table
SummedCols(wide) == wide.cols \ {"DMA_Code", "date", "unique_hcps"}

Dates(t) == {t.rows[i]["date"] : i \in DOMAIN t.rows}

RowsOfDate(t, d) == {i \in DOMAIN t.rows : t.rows[i]["date"] = d}

\* C3 as stated: for every period, each summed column of the DMA-level rows
\* summed over the DMAs equals the national row's, and both tables hold the
\* same periods.
C3_DmaSumsEqualNational ==
    (DmaDone /\ NationalDone) =>
        /\ Dates(dma_agg) = Dates(national_agg)
        /\ \A n \in DOMAIN national_agg.rows : \A c \in SummedCols(national_agg) :
              NonNullTotal(dma_agg, c, RowsOfDate(dma_agg, national_agg.rows[n]["date"]))
                 = national_agg.rows[n][c]

\* the channel list of the script that runs
ChannelsOf(s) == IF s = "run" THEN channels ELSE t_channels

SpendWideCols(wide) == {c \in wide.cols : \E j \in DOMAIN channels : c = "spend_" \o channels[j]}

SameKey(long, k, wide, n, keys) == \A c \in keys : long.rows[k][c] = wide.rows[n][c]

RECURSIVE RowTotal(_, _)
RowTotal(row, C) ==
    IF C = {} THEN 0
    ELSE LET c == CHOOSE x \in C : TRUE IN row[c] + RowTotal(row, C \ {c})

WideLongConsistent(wide, long, keys) ==
    \A n \in DOMAIN wide.rows :
        /\ \A j \in DOMAIN ChannelsOf(script) :
              NonNullTotal(long, "spend",
                           {k \in DOMAIN long.rows :
                               /\ SameKey(long, k, wide, n, keys)
                               /\ long.rows[k]["channel"] = ChannelsOf(script)[j]})
                 = wide.rows[n]["spend_" \o ChannelsOf(script)[j]]
        /\ NonNullTotal(long, "spend",
                        {k \in DOMAIN long.rows : SameKey(long, k, wide, n, keys)})
              = RowTotal(wide.rows[n], SpendWideCols(wide))

\* C4: for every row of a wide table and every channel of the channel list,
\* the spend of the long-form rows of that key and channel sums to the row's
\* spend_<channel>, and the spend of all long-form rows of that key sums to
\* the row's total over its spend_* columns.
C4_WideLongRoundTrip ==
    ChannelDone =>
        /\ WideLongConsistent(dma_agg, dma_channels_df, {"DMA_Code", "date"})
        /\ WideLongConsistent(national_agg, national_channels_df, {"date"})

\* a DMA-level row with spend in two channels, exploded into the long form
C4_Witness ==
    /\ ChannelDone
    /\ \E n \in DOMAIN dma_agg.rows :
          /\ dma_agg.rows[n]["spend_display_hcp"] = 150
          /\ dma_agg.rows[n]["spend_meetings"] > 0
    /\ Len(dma_channels_df.rows) = Len(dma_agg.rows) * Len(ChannelsOf(script))

\* the lower-case names under which the scripts store a raw column
CanonicalNames(c) ==
    {t_columns[k] : k \in {j \in DOMAIN t_agg_dict : t_agg_dict[j] = c}}
      \cup (IF c \in DOMAIN column_mapping THEN {column_mapping[c]} ELSE {})

RawSummedCols == Range(SpendCols) \cup Range(ImpressionCols) \cup Range(ClickCols)
                   \cup Range(OutcomeCols)

GroupOf(wide, n, keys) ==
    {i \in DOMAIN df.rows : \A k \in keys : df.rows[i][k] = wide.rows[n][k]}

DistinctHcps(I) == Cardinality({df.rows[i]["HCP_ID"] : i \in I} \ {NoId})

HoldsGroupSums(wide, keys) ==
    \A n \in DOMAIN wide.rows :
        /\ \A c \in RawSummedCols :
              \E name \in CanonicalNames(c) :
                  /\ name \in wide.cols
                  /\ wide.rows[n][name] = NonNullTotal(df, c, GroupOf(wide, n, keys))
        /\ wide.rows[n]["unique_hcps"] = DistinctHcps(GroupOf(wide, n, keys))

\* C5 as stated: each DMA-level row holds, for every configured column, the
\* sum over exactly the raw rows of its geography and period, under the
\* column's canonical lower-case name, and unique_hcps is the number of
\* distinct HCP_ID values of those rows; the national row holds the same over
\* the raw rows of its period.
C5_GroupSumsUnderCanonicalNames ==
    (DmaDone /\ NationalDone) =>
        /\ HoldsGroupSums(dma_agg, {"DMA_Code", "date"})
        /\ HoldsGroupSums(national_agg, {"date"})

\* the name under which the script that runs stores a raw column
StoredName(c) ==
    IF script = "run" THEN (IF c \in DOMAIN column_mapping THEN column_mapping[c] ELSE c)
    ELSE t_columns[CHOOSE k \in DOMAIN t_agg_dict : t_agg_dict[k] = c]

NullsAsZero(wide, keys) ==
    \A n \in DOMAIN wide.rows : \A j \in DOMAIN SpendCols :
        /\ wide.rows[n][StoredName(SpendCols[j])] # NaN
        /\ wide.rows[n][StoredName(SpendCols[j])]
              = NonNullTotal(df, SpendCols[j], GroupOf(wide, n, keys))

\* C6: a null in a configured spend column counts as 0: the group's summed
\* value is the sum of the group's non-null values (0 when all are null) and
\* is never null.
C6_NullSpendCountsAsZero ==
    (DmaDone /\ NationalDone) =>
        /\ NullsAsZero(dma_agg, {"DMA_Code", "date"})
        /\ NullsAsZero(national_agg, {"date"})

\* a group of a row with null spend and a row with spend 100 sums to 100
C6_Witness ==
    /\ DmaDone /\ NationalDone
    /\ \E n \in DOMAIN dma_agg.rows :
          /\ \E i, k \in GroupOf(dma_agg, n, {"DMA_Code", "date"}) :
                df.rows[i]["SPEND_display_hcp"] = NaN /\ df.rows[k]["SPEND_display_hcp"] = 100
          /\ dma_agg.rows[n]["spend_display_hcp"] = 100

SpendColumnAbsent == \E j \in DOMAIN SpendCols : SpendCols[j] \notin raw.cols

NothingProduced ==
    /\ dma_agg = NoTable /\ national_agg = NoTable
    /\ dma_channels_df = NoTable /\ national_channels_df = NoTable
    /\ files = {}

C10_NoGeographySelectsNational ==
    (fileExists /\ "DMA_Code" \notin raw.cols /\ Finished) =>
        /\ pc = "done"
        /\ NationalDone
        /\ \E f \in files : f.name = "national_aggregated_data.csv"
        /\ \E f \in files : f.name = "national_channel_data.csv"

\* C10 amended: with DMA_Code absent from the raw table the transformation
\* run fails at the load: load_hcp_data returns None and main returns False
\* (transform_hcp_to_mmm.py ends with a KeyError), and no aggregated table
\* and no output file is produced.
C10_NoGeographyFailsAtLoad ==
    (fileExists /\ "DMA_Code" \notin raw.cols) =>
        /\ NothingProduced /\ df = NoTable
        /\ Finished =>
              \/ script = "run" /\ pc = "done" /\ result = "False"
              \/ script = "transform" /\ pc = "crashed" /\ error = "KeyError"

\* a raw file of two rows without DMA_Code, and main returned False
C10_Witness ==
    /\ fileExists /\ "DMA_Code" \notin raw.cols /\ Len(raw.rows) = 2
    /\ script = "run" /\ pc = "done" /\ result = "False"

\* the raw row has a geography and a period: no key cell of it is null
HasKey(i, keys) == \A k \in keys : ~IsNullCell(k, df.rows[i][k])

WideRowsOf(wide, i, keys) ==
    {n \in DOMAIN wide.rows : \A k \in keys : wide.rows[n][k] = df.rows[i][k]}

OneRowPerKey(wide, keys) ==
    /\ \A i \in DOMAIN df.rows :
          HasKey(i, keys) => Cardinality(WideRowsOf(wide, i, keys)) = 1
    /\ \A n \in DOMAIN wide.rows : GroupOf(wide, n, keys) # {}
    /\ \A n, m \in DOMAIN wide.rows :
          n # m => \E k \in keys : wide.rows[n][k] # wide.rows[m][k]

\* C11: the DMA-level table holds exactly one row for every pair of a
\* geography and a period that some raw row carries, the national table
\* exactly one row for every period that some raw row carries; neither holds
\* a row for a pair or period no raw row carries, and no two rows of a table
\* share a key.
C11_OneRowPerKey ==
    (DmaDone /\ NationalDone) =>
        /\ OneRowPerKey(dma_agg, {"DMA_Code", "date"})
        /\ OneRowPerKey(national_agg, {"date"})

\* two raw rows of one geography and period make one DMA-level row and one
\* national row
C11_Witness ==
    /\ DmaDone /\ NationalDone
    /\ Len(df.rows) = 2
    /\ HasKey(1, {"DMA_Code", "date"})
    /\ KeyOf(df.rows[1], <<"DMA_Code", "date">>) = KeyOf(df.rows[2], <<"DMA_Code", "date">>)
    /\ Len(dma_agg.rows) = 1 /\ Len(national_agg.rows) = 1

\* the channels without an impressions or clicks column
ChannelsWithoutImpressions == {"meetings", "teledetails", "emails"}

LongRowsCarryImpressions(wide, long, keys) ==
    \A k \in DOMAIN long.rows : \A n \in DOMAIN wide.rows :
        SameKey(long, k, wide, n, keys) =>
            LET ch == long.rows[k]["channel"]
            IN  /\ long.rows[k]["impressions"] # NaN /\ long.rows[k]["clicks"] # NaN
                /\ IF ch \in ChannelsWithoutImpressions
                   THEN long.rows[k]["impressions"] = 0 /\ long.rows[k]["clicks"] = 0
                   ELSE /\ long.rows[k]["impressions"] = wide.rows[n]["impressions_" \o ch]
                        /\ long.rows[k]["clicks"] = wide.rows[n]["clicks_" \o ch]

\* C12: a long-form row of meetings, teledetails or emails carries
\* impressions 0 and clicks 0, never null; a long-form row of any other
\* channel carries the impressions_<channel> and clicks_<channel> values of
\* the wide row of its key.
C12_LongFormImpressionsAndClicks ==
    ChannelDone =>
        /\ LongRowsCarryImpressions(dma_agg, dma_channels_df, {"DMA_Code", "date"})
        /\ LongRowsCarryImpressions(national_agg, national_channels_df, {"date"})

\* a DMA-level key exploded into a meetings row with 0 impressions and a
\* display_hcp row with the summed impressions
C12_Witness ==
    /\ ChannelDone
    /\ \E k, m \in DOMAIN dma_channels_df.rows :
          /\ dma_channels_df.rows[k]["channel"] = "meetings"
          /\ dma_channels_df.rows[k]["impressions"] = 0
          /\ dma_channels_df.rows[k]["clicks"] = 0
          /\ dma_channels_df.rows[m]["channel"] = "display_hcp"
          /\ dma_channels_df.rows[m]["DMA_Code"] = dma_channels_df.rows[k]["DMA_Code"]
          /\ dma_channels_df.rows[m]["date"] = dma_channels_df.rows[k]["date"]
          /\ dma_channels_df.rows[m]["impressions"] > 0
          /\ dma_channels_df.rows[m]["clicks"] > 0

-----------------------------------------------------------------------------
(* Properties of the period conversion, checked under SpecPeriod *)

\* the conversion step has run: it added the date column or it raised
ConversionDone ==
    \/ "date" \in df.cols
    \/ pc = "crashed" /\ error \in {"ValueError", "OutOfBoundsDatetime"}

\* a six-digit YYYYMM value whose month part is 01..12
StrictPeriod(v) == v >= 100000 /\ v <= 999999 /\ v % 100 \in 1..12

PeriodsWithin(lo, hi) ==
    \A i \in DOMAIN raw.rows :
        /\ raw.rows[i]["month"] >= lo /\ raw.rows[i]["month"] <= hi
        /\ raw.rows[i]["month"] % 100 \in 1..12

FirstOfMonthDates ==
    /\ "date" \in df.cols
    /\ \A i \in DOMAIN raw.rows :
          df.rows[i]["date"] = [year |-> raw.rows[i]["month"] \div 100,
                                month |-> raw.rows[i]["month"] % 100,
                                day |-> 1]

\* C7 as stated: every period in [190001, 999912] with a month part 01..12
\* converts to the first day of that month of that year.
C7_ConvertsUpTo9999 ==
    (ConversionDone /\ PeriodsWithin(190001, 999912)) => FirstOfMonthDates

\* C7 amended: every period in [190001, 226204] with a month part 01..12
\* converts to the first day of that month of that year (April 2262 is the
\* last month a datetime64[ns] date can hold).
C7_ConvertsUpTo226204 ==
    (ConversionDone /\ PeriodsWithin(190001, 226204)) => FirstOfMonthDates

\* the ends of the amended range converted
C7_Witness ==
    /\ "date" \in df.cols
    /\ \E i \in DOMAIN raw.rows :
          raw.rows[i]["month"] = 226204
             /\ df.rows[i]["date"] = [year |-> 2262, month |-> 4, day |-> 1]

\* C8 as stated: a period that is not a six-digit YYYYMM value with a month
\* part 01..12 makes the conversion fail with a bad-period-format error, and
\* no row gets a date.
C8_OtherWidthsFail ==
    (ConversionDone /\ \E i \in DOMAIN raw.rows : ~StrictPeriod(raw.rows[i]["month"])) =>
        /\ pc = "crashed" /\ error \in {"ValueError", "OutOfBoundsDatetime"}
        /\ "date" \notin df.cols

-----------------------------------------------------------------------------
(* Properties of identify_mmm_columns, checked under SpecClassify *)

\* list is columns with some entries left out: its entries are entries of
\* columns at increasing positions
IsSubsequence(list, cols) ==
    \E at \in [DOMAIN list -> DOMAIN cols] :
        /\ \A a, b \in DOMAIN list : a < b => at[a] < at[b]
        /\ \A a \in DOMAIN list : list[a] = cols[at[a]]

LowerCased ==
    ("HCP_ID" :> "hcp_id") @@
    ("COST_paidsearch_hcp_google" :> "cost_paidsearch_hcp_google") @@
    ("TRX" :> "trx") @@
    ("Media_Budget" :> "media_budget") @@
    ("State" :> "state") @@
    ("Sales_Year" :> "sales_year")

Listed(a, role, col) == \E j \in DOMAIN mmm_columns[a][role] : mmm_columns[a][role][j] = col

\* C14: a column is in the list of a role exactly when its lower-cased
\* name contains a keyword of that role; a column may be in several lists
\* or in none.
C14_ListedIffKeywordInLowerCasedName ==
    \A a \in DOMAIN mmm_columns : \A r \in DOMAIN Roles : \A i \in DOMAIN columns :
        Listed(a, Roles[r], columns[i])
           <=> \E j \in DOMAIN Keywords[Roles[r]] :
                  contains(LowerCased[columns[i]], Keywords[Roles[r]][j])

\* a column listed under two roles next to a column listed under none
C14_Witness ==
    /\ Len(mmm_columns) >= 1
    /\ \E i, k \in DOMAIN columns :
          /\ columns[i] = "COST_paidsearch_hcp_google"
          /\ Listed(1, "spend_columns", columns[i])
          /\ Listed(1, "hcp_identifiers", columns[i])
          /\ columns[k] = "TRX"
          /\ \A r \in DOMAIN Roles : ~Listed(1, Roles[r], columns[k])

-----------------------------------------------------------------------------
(* Properties of the loaders, checked under SpecLoad *)

Called == loaded.status # "not called"

\* C15: load_csv_data raises FileNotFoundError when the path does not exist
\* and ValueError when the file exists but cannot be read as CSV, returning
\* no table in either case; a table is returned only for a file that was
\* read, and it has the file's columns and rows.
C15_LoadCsvDataErrors ==
    Called =>
        /\ csv_file.kind = "missing" => loaded = Raised("FileNotFoundError")
        /\ csv_file.kind \in {"empty", "binary"} => loaded = Raised("ValueError")
        /\ loaded.status = "raised" => loaded.df = NoFrame
        /\ loaded.status = "returned" =>
              /\ csv_file.kind = "csv"
              /\ Len(loaded.df.columns) = Len(csv_file.header)
              /\ Len(loaded.df.rows) = Len(csv_file.rows)
        /\ (loader = "load_csv_data" /\ loaded.status = "returned") =>
              loaded.df.columns = csv_file.header

\* a file that is no text, and load_csv_data raised ValueError
C15_Witness ==
    /\ loader = "load_csv_data"
    /\ csv_file.kind = "binary"
    /\ loaded = Raised("ValueError")

\* the aliases of the loader called, in lower case, with their canonical name
AliasesOf(name) ==
    IF name = "load_marketing_spend_data"
    THEN ("date" :> "date") @@ ("spend" :> "spend") @@ ("channel" :> "channel")
         @@ ("media" :> "channel")
    ELSE ("date" :> "date") @@ ("revenue" :> "revenue") @@ ("sales" :> "revenue")
         @@ ("prescriptions" :> "prescriptions")

\* C16 as stated: in the table a loader returns, every column whose name is
\* an alias of the loader in any letter case carries the canonical
\* lower-case name, and every other column carries the name it has in the
\* file.
C16_AliasesRenamedInAnyCase ==
    (loader # "load_csv_data" /\ loaded.status = "returned") =>
        \A j \in DOMAIN csv_file.header :
            loaded.df.columns[j] =
                IF lower(csv_file.header[j]) \in DOMAIN AliasesOf(loader)
                THEN AliasesOf(loader)[lower(csv_file.header[j])]
                ELSE csv_file.header[j]

\* the columns of the file that the loader names date
CanonicalDateColumns == {j \in DOMAIN csv_file.header : csv_file.header[j] \in {"date", "Date"}}

Unparseable(text) == text # "" /\ ~IsDate(text)

\* C17 as stated: when a cell of the canonical date column cannot be parsed
\* as a date the loader returns the table, with every such cell null and
\* every other cell of the column parsed.
C17_ParseFailuresBecomeNull ==
    (/\ loader # "load_csv_data" /\ Called /\ csv_file.kind = "csv"
     /\ Cardinality(CanonicalDateColumns) = 1
     /\ \E i \in DOMAIN csv_file.rows : \E j \in CanonicalDateColumns :
           Unparseable(csv_file.rows[i][j]))
    => /\ loaded.status = "returned"
       /\ \A i \in DOMAIN csv_file.rows : \A j \in CanonicalDateColumns :
             loaded.df.rows[i][j] =
                 IF Unparseable(csv_file.rows[i][j]) \/ csv_file.rows[i][j] = "" THEN "NaT"
                 ELSE "Timestamp(" \o csv_file.rows[i][j] \o ")"

-----------------------------------------------------------------------------
(* Properties of the chart functions, checked under SpecChart *)

PlotCalled == plotted.status # "not called"

\* C18 as stated: after a chart call made with the hand-drawn style
\* requested, whether it returned a figure, returned no figure or raised,
\* the global hand-drawn rendering mode is off.
C18_HandDrawnModeRevertedAfterCall ==
    (PlotCalled /\ plotted.xkcd_style) => ~rcParams.sketch

OfDashboard == plotted.function \in {"create_time_series_plot", "create_channel_comparison_plot"}

\* the call had nothing to draw: an empty table, no row of the selected
\* geography, or a selected column that the table lacks
NothingToDraw ==
    /\ PlotCalled /\ ~chart_data.none
    /\ \/ /\ empty(chart_data)
          /\ OfDashboard \/ plotted.function = "plot_time_series"
       \/ /\ OfDashboard /\ {"dma", "month"} \subseteq chart_data.cols
          /\ \/ rows_of_dma(chart_data, plotted.dma) = {}
             \/ /\ plotted.function = "create_time_series_plot"
                /\ plotted.channel \notin chart_data.cols
       \/ /\ plotted.function = "plot_time_series" /\ "month" \in chart_data.cols
          /\ \E j \in DOMAIN plotted.value_cols : plotted.value_cols[j] \notin chart_data.cols

\* C19 as stated: a chart call on an empty table, on a selection without
\* rows or on a selected column the table lacks returns no chart object and
\* does not raise.
C19_NoDataSentinelInsteadOfRaise ==
    NothingToDraw => plotted.status = "returned" /\ plotted.fig = "None"

\* C21: every chart and metric function leaves the table passed to it as
\* it was: no step of a call changes the rows, the columns or a value of
\* the caller's table.
C21_InputTableUnchanged == [][chart_data' = chart_data]_vars

\* each of the seven functions was called on a table; for the dashboard's
\* three the table holds a row of another geography than the selected one,
\* which the filter left out of the selection but not out of the table
C21_Witness ==
    /\ PlotCalled /\ plotted.status = "returned" /\ plotted.fig \in {"Figure", "dict"}
    /\ plotted.function = "calculate_metrics"
    /\ \E i \in DOMAIN chart_data.rows : chart_data.rows[i]["dma"] # plotted.dma
    /\ \E i \in DOMAIN chart_data.rows : chart_data.rows[i]["dma"] = plotted.dma

-----------------------------------------------------------------------------
(* The exit status of a run of a transformation script *)

\* the status the process of a finished run ends with.  Neither script
\* calls sys.exit: the entry block of run_data_transformation.py prints a
\* line for either value of main(), transform_hcp_to_mmm.py calls main()
\* and drops its value, so the interpreter ends with 0 unless an exception
\* left main, and then with 1.
exit_status == IF result = "exception" THEN 1 ELSE 0

\* C22 as stated: a run that completed ends with exit status 0, a run that
\* failed at top level with exit status 1; a transformation run whose raw
\* input file is missing ends with exit status 1.
C22_ExitStatusTellsFailure ==
    Finished =>
        /\ exit_status = (IF result \in {"True", "None"} THEN 0 ELSE 1)
        /\ ~fileExists => exit_status = 1

-----------------------------------------------------------------------------
(* Row conservation and the count of distinct HCPs *)

\* raw row i is in the group of exactly one row of the wide table
CountedOnce(wide, keys) ==
    \A i \in DOMAIN df.rows :
        Cardinality({n \in DOMAIN wide.rows : i \in GroupOf(wide, n, keys)}) = 1

\* the grand total of every spend column over the wide table is the raw
\* table's
KeepsGrandTotals(wide) ==
    \A j \in DOMAIN SpendCols :
        NonNullTotal(wide, StoredName(SpendCols[j]), DOMAIN wide.rows)
           = NonNullTotal(df, SpendCols[j], DOMAIN df.rows)

\* C25 as stated: every raw row, a row with a null DMA_Code or period
\* included, is counted in exactly one DMA-level row and in exactly one
\* national row, and the grand totals of the DMA-level table, of the
\* national table and of the raw table are equal.
C25_EveryRawRowCountedOnce ==
    (DmaDone /\ NationalDone) =>
        /\ CountedOnce(dma_agg, {"DMA_Code", "date"})
        /\ CountedOnce(national_agg, {"date"})
        /\ KeepsGrandTotals(dma_agg)
        /\ KeepsGrandTotals(national_agg)

\* the DMA-level unique_hcps of period d, summed over the DMAs
DmaUniqueHcps(d) == NonNullTotal(dma_agg, "unique_hcps", RowsOfDate(dma_agg, d))

\* some HCP_ID of the raw rows I is under two DMA codes
HcpUnderTwoDmas(I) ==
    \E i, k \in I :
        /\ df.rows[i]["HCP_ID"] # NoId /\ df.rows[i]["HCP_ID"] = df.rows[k]["HCP_ID"]
        /\ df.rows[i]["DMA_Code"] # NaN /\ df.rows[k]["DMA_Code"] # NaN
        /\ df.rows[i]["DMA_Code"] # df.rows[k]["DMA_Code"]

\* C26 as stated: the national unique_hcps of a period is the number of
\* distinct HCP_ID values of the period's raw rows; it is at most the sum of
\* the period's DMA-level unique_hcps, and equal to it exactly when no
\* HCP_ID is under two DMA codes in the period.
C26_NationalHcpsAtMostDmaSum ==
    (DmaDone /\ NationalDone) =>
        \A n \in DOMAIN national_agg.rows :
            LET group == GroupOf(national_agg, n, {"date"})
                d == national_agg.rows[n]["date"]
            IN  /\ national_agg.rows[n]["unique_hcps"] = DistinctHcps(group)
                /\ national_agg.rows[n]["unique_hcps"] <= DmaUniqueHcps(d)
                /\ national_agg.rows[n]["unique_hcps"] = DmaUniqueHcps(d)
                      <=> ~HcpUnderTwoDmas(group)

-----------------------------------------------------------------------------
(* The two transformation scripts on the same raw table *)

\* the four tables the other script makes of the dated raw table
OtherScriptTables ==
    LET run == script # "run"
        dma == IF run THEN create_dma_aggregation(df) ELSE t_dma_aggregation(df)
        national == IF run THEN create_national_aggregation(df) ELSE t_national_aggregation(df)
        chans == IF run THEN channels ELSE t_channels
    IN  [dma_agg |-> dma, national_agg |-> national,
         dma_channels_df |-> create_channel_level_data(dma, chans, {"DMA_Code", "date"}),
         national_channels_df |-> create_channel_level_data(national, chans, {"date"})]

\* C27 as stated: run_data_transformation.py and transform_hcp_to_mmm.py
\* make the same four tables of every raw table: wide tables of the same
\* columns and values, long-form tables of the same channels and rows.
C27_ScriptsMakeSameTables ==
    (pc = "done" /\ files # {}) =>
        /\ channels = t_channels
        /\ dma_agg = OtherScriptTables.dma_agg
        /\ national_agg = OtherScriptTables.national_agg
        /\ dma_channels_df = OtherScriptTables.dma_channels_df
        /\ national_channels_df = OtherScriptTables.national_channels_df

-----------------------------------------------------------------------------
(* The dashboard's scope filter on the tables the pipeline wrote *)

\* the wide DMA-level table of a finished run, as the dashboard holds it
\* after load_data
WrittenDmaTable == [none |-> FALSE, cols |-> dma_agg.cols, rows |-> dma_agg.rows]

\* C24 as stated: for the tables a run of the pipeline wrote, every scope
\* the dashboard offers (National, or a DMA of get_available_dmas) and every
\* channel it offers is drawn from the rows of that scope: the filter on
\* the geography column does not fail and does not come back empty.
C24_ScopeFilterSelectsWrittenRows ==
    (pc = "done" /\ files # {} /\ dma_agg.rows # <<>>) =>
        \A dma \in get_available_dmas(WrittenDmaTable),
           channel \in get_available_channels(WrittenDmaTable) :
            LET out == create_time_series_plot(rc_after_import, WrittenDmaTable, channel,
                                               dma, FALSE)
            IN  out.status = "returned" /\ out.fig = "Figure"

-----------------------------------------------------------------------------
(* Load errors of analyze_hcp_data.py, checked under SpecAnalyze *)

\* C23 as stated: a load or parse error of an input file aborts the run.
\* Once the load of a missing raw file, or of a missing or corrupt workbook
\* of column descriptions, is behind, the run is over and no file is
\* written.
C23_LoadErrorAbortsRun ==
    /\ (~fileExists /\ pc # "load") => pc = "done" /\ files = {}
    /\ (desc_file # "ok" /\ pc \notin {"load", "describe"}) => pc = "done" /\ files = {}

-----------------------------------------------------------------------------
(* The outcome of setup_python_env.py, checked under SpecSetup *)

\* every core package was installed, and can be imported
CoreInstalled ==
    /\ \A k \in DOMAIN packages.core :
          k <= Len(attempted) /\ attempted[k].package = packages.core[k] /\ attempted[k].ok
    /\ Range(packages.core) \subseteq importable

\* the install of a core package failed
CoreInstallFailed ==
    \E k \in DOMAIN attempted : k <= Len(packages.core) /\ ~attempted[k].ok

\* C28 as stated: when every core package installs and imports, main
\* returns True whatever became of the optional installs; when the install
\* of a core package fails, main returns False and no further package is
\* installed.
C28_OptionalInstallFailureIsWarning ==
    pc = "done" =>
        /\ CoreInstalled => result = "True"
        /\ CoreInstallFailed => result = "False" /\ ~attempted[Len(attempted)].ok
                                   /\ Len(attempted) <= Len(packages.core)

-----------------------------------------------------------------------------
(* The hand-drawn style switched on and off again, checked under SpecChart *)

\* C30 as stated: enable_xkcd_style followed by disable_xkcd_style leaves
\* every rendering setting, the style and the fonts installed at the import
\* of the eda module included, at the value it had before.
C30_EnableThenDisableIsIdentity ==
    [][(plots' # plots /\ plotted'.function = "demo_global_xkcd") => rcParams' = rcParams]_vars

-----------------------------------------------------------------------------
(* Properties of the dashboard's cached load, checked under SpecDashboard *)

\* C20 as stated: in one session the body of load_data runs at most once,
\* and what a later interaction gets is the cached value of that first run.
C20_FilesReadAtMostOnce ==
    /\ reads <= 1
    /\ interactions >= 2 => cache.filled /\ session.value = cache.value

ServedFromCache ==
    cache.filled =>
        /\ cache' = cache
        /\ reads' = reads
        /\ interactions' # interactions =>
              session' = [status |-> "returned", value |-> cache.value]

\* C20 amended: once a call of load_data has returned (the four tables, or
\* the four Nones for a missing file) its value is the cache entry: the
\* entry never changes, the files are not read again whatever is written to
\* them, and every later interaction gets that value.  A call that raised
\* (a file that cannot be parsed) stores nothing, so until a call returns
\* every interaction reads the files.
C20_FilesReadOnceAfterLoadReturned ==
    /\ [](/\ session.status = "raised" => ~cache.filled
          /\ ~cache.filled => reads = interactions
          /\ cache.filled => session.status = "returned" /\ session.value = cache.value)
    /\ [][ServedFromCache]_vars

\* the first interaction loaded the tables v1, the files were then written
\* again, and two more interactions got v1 without a read
C20_Witness ==
    /\ interactions = 3 /\ reads = 1
    /\ cache.filled /\ cache.value = [f \in Range(DashboardFiles) |-> "v1"]
    /\ disk = [f \in Range(DashboardFiles) |-> "v2"]
    /\ session = [status |-> "returned", value |-> cache.value]

\* the four files are on disk, and are tables
FilesWritten == \A f \in Range(DashboardFiles) : disk[f] \in {"v1", "v2"}

\* C29 as stated: the result of a load that failed because the files were
\* missing is not served from the cache for the rest of the session: an
\* interaction made once the files exist gets the tables, not the four
\* Nones.
C29_FailedLoadNotServedFromCache ==
    [][(interactions' # interactions /\ FilesWritten) => session'.value # Nones]_vars

====
